---- MODULE Spec2Model ----
(***************************************************************************)
(* A model of the pick optimisation engine of the football pool system:    *)
(* the strategy selector, the candidate scorers, the value/risk analysis,  *)
(* the two analysis combiners and the confidence point assignment.         *)
(*                                                                         *)
(* Every operation is one action.  A call is recorded in the variables op  *)
(* (the operation), arg (the arguments as passed), after (the argument     *)
(* objects as the call leaves them: Python passes lists and dicts by       *)
(* reference), ret (the value returned) and raised (the exception the call *)
(* ended with, "none" when it returned); pc is "call" while the call is    *)
(* pending and "done" once it has ended.                                   *)
(* The operations that are functions of their arguments are checked under  *)
(* specifications whose initial states draw the arguments.                 *)
(* generate_optimal_picks is checked as the system runs it: it reads the   *)
(* schedule, the rating table and the pool position, draws from the        *)
(* generator of module random (random_state) and every run that has ended  *)
(* is kept in generated.                                                   *)
(*                                                                         *)
(* Numbers the code computes in floating point are kept exact here, as     *)
(* integers in a stated unit (tenths, hundredths).                         *)
(***************************************************************************)
EXTENDS Integers, Sequences, FiniteSets, TLC

VARIABLES
    points_behind_leader, \* PoolPosition.points_behind_leader, in 1/DeficitScale points
    op,                   \* the operation called
    pc,                   \* "call": the call is pending; "done": it returned
    arg,                  \* its arguments
    after,                \* its argument objects after the call
    ret,                  \* its result (<<>> for None)
    raised,               \* the exception it raised, "none" when it returned
    random_state,         \* the state of the generator of module random
    generated,            \* the calls of generate_optimal_picks that have ended
    team_power_ratings,   \* PoolDominationSystem.team_power_ratings
    output_dir,           \* the workbooks of ExcelAutomation.output_dir, by file name
    database,             \* the SQLite file at DatabaseManager.db_path
    usage_data,           \* APIUsageTracker.usage_data
    now                   \* the month of datetime.now()

vars == <<points_behind_leader, op, pc, arg, after, ret, raised, random_state, generated,
          team_power_ratings, output_dir, database, usage_data, now>>

----------------------------------------------------------------------------
(* Helpers *)

Min(a, b) == IF a <= b THEN a ELSE b
Max(a, b) == IF a >= b THEN a ELSE b
Abs(a) == IF a >= 0 THEN a ELSE -a

\* Python's int(): truncation towards zero of n/d (d > 0).
Trunc(n, d) == IF n >= 0 THEN n \div d ELSE -((-n) \div d)

\* All sequences over S of length lo..hi.
SeqsOf(S, lo, hi) == UNION {[1..n -> S] : n \in lo..hi}

Range(s) == {s[i] : i \in DOMAIN s}

\* list.sort(reverse=True) / sorted(..., reverse=True) are stable: elements
\* with equal keys keep their order.  keys[i] is the key of element i; the
\* result lists the indices in sorted order.
SortRank(keys, i) ==
    1 + Cardinality({j \in DOMAIN keys :
                        keys[j] > keys[i] \/ (keys[j] = keys[i] /\ j < i)})
StableSortDesc(keys) ==
    [r \in 1..Len(keys) |-> CHOOSE i \in 1..Len(keys) : SortRank(keys, i) = r]

\* s[1..n], Python's s[:n].
Take(s, n) == SubSeq(s, 1, Min(n, Len(s)))

----------------------------------------------------------------------------
(* Strategy selector: PoolDominationSystem._determine_strategy *)

\* Deficits are modelled in steps of 1/DeficitScale point, from -MaxDeficit
\* to MaxDeficit points.
DeficitScale == 4
MaxDeficit == 210
Deficits == (-MaxDeficit * DeficitScale)..(MaxDeficit * DeficitScale)

\* A whole number of points, in model units.
Points(p) == p * DeficitScale

\* The selector with the first comparison made inclusive.
DetermineStrategyInclusive(deficit) ==
    IF deficit <= Points(-30) THEN "protective"
    ELSE IF deficit < Points(0) THEN "balanced"
    ELSE IF deficit < Points(50) THEN "high_variance"
    ELSE "maximum_variance"

_determine_strategy(deficit) ==
    IF deficit < Points(-30) THEN "protective"
    ELSE IF deficit < Points(0) THEN "balanced"
    ELSE IF deficit < Points(50) THEN "high_variance"
    ELSE "maximum_variance"

StrategyTags == {"protective", "balanced", "high_variance", "maximum_variance"}

\* system.pool_position.points_behind_leader = d
SetPoolPosition ==
    \E d \in Deficits :
        /\ points_behind_leader' = d
        /\ op' = "set_pool_position"
        /\ pc' = "done"
        /\ arg' = d
        /\ after' = d
        /\ ret' = <<>>
        /\ raised' = "none"
        /\ UNCHANGED <<random_state, generated, output_dir, database, usage_data, now, team_power_ratings>>

DetermineStrategy ==
    /\ op' = "_determine_strategy"
    /\ pc' = "done"
    /\ arg' = points_behind_leader
    /\ after' = points_behind_leader
    /\ ret' = _determine_strategy(points_behind_leader)
    /\ raised' = "none"
    /\ UNCHANGED <<output_dir, database, usage_data, now, team_power_ratings, points_behind_leader, random_state, generated>>

----------------------------------------------------------------------------
(* Confidence assignment: PoolDominationSystem._apply_fibonacci_assignment *)

\* Raw confidences (Pick.conf) are in tenths of a percent point; -1 stands
\* for None.
ConfKey(conf) == IF conf < 0 THEN 0 ELSE conf      \* x.conf or 0

\* points = [20, 19, ..., 1]
NumPoints == 20
PointsTable == [i \in 1..NumPoints |-> NumPoints + 1 - i]

\* The assignment relabelled to K .. 1, K the number of picks kept.
ApplyFibonacciFromK(picks) ==
    LET order  == StableSortDesc([i \in DOMAIN picks |-> ConfKey(picks[i].conf)])
        sorted == [r \in DOMAIN picks |-> picks[order[r]]]
        K      == Min(NumPoints, Len(picks))
    IN  [r \in 1..K |-> [sorted[r] EXCEPT !.confidence_points = K + 1 - r]]

\* The relabelling without the sort.
FibonacciUnsorted(picks) ==
    [r \in DOMAIN picks |->
        IF r <= NumPoints
        THEN [picks[r] EXCEPT !.confidence_points = PointsTable[r]]
        ELSE picks[r]]

\* The list as the call leaves it: sorted in place, the first 20 relabelled.
FibonacciSortedInPlace(picks) ==
    LET order  == StableSortDesc([i \in DOMAIN picks |-> ConfKey(picks[i].conf)])
        sorted == [r \in DOMAIN picks |-> picks[order[r]]]
    IN  [r \in DOMAIN picks |->
            IF r <= NumPoints
            THEN [sorted[r] EXCEPT !.confidence_points =
                     IF r <= Len(PointsTable) THEN PointsTable[r] ELSE 1]
            ELSE sorted[r]]

_apply_fibonacci_assignment(picks) ==
    Take(FibonacciSortedInPlace(picks), NumPoints)

\* Candidate pools: every pool of up to MaxSmallPool picks over SmallConfs,
\* and pools of every size up to MaxPool whose confidences follow a pattern.
MaxSmallPool == 3
MaxPool == 22
SmallConfs == {-1, 0, 600, 850}
PoolPatterns == {"rising", "falling", "flat", "sawtooth"}

PatternConf(pattern, i) ==
    CASE pattern = "rising"   -> 500 + 10 * i
      [] pattern = "falling"  -> 900 - 10 * i
      [] pattern = "flat"     -> 700
      [] pattern = "sawtooth" -> 500 + 100 * (i % 3)

MakePick(i, conf) ==
    [game |-> i, predicted_winner |-> "away", confidence_points |-> 1, conf |-> conf]

CandidatePools ==
    {[i \in DOMAIN cs |-> MakePick(i, cs[i])] : cs \in SeqsOf(SmallConfs, 0, MaxSmallPool)}
    \cup {[i \in 1..n |-> MakePick(i, PatternConf(p, i))] :
              n \in 1..MaxPool, p \in PoolPatterns}

ApplyFibonacciAssignment ==
    /\ op = "_apply_fibonacci_assignment" /\ pc = "call"
    /\ pc' = "done"
    /\ after' = FibonacciSortedInPlace(arg)
    /\ ret' = _apply_fibonacci_assignment(arg)
    /\ UNCHANGED <<output_dir, database, usage_data, now, team_power_ratings, random_state, generated, points_behind_leader, op, arg, raised>>

----------------------------------------------------------------------------
(* Value/risk analysis: ValuePlayOptimizer *)

\* A free-text field is modelled by the words it holds; None is a field that
\* holds no string.  The empty text is also what pick.get(key, "") gives for
\* a missing key.  Scores are in hundredths.
Text(ws) == [none |-> FALSE, words |-> ws]
NoneText == [none |-> TRUE, words |-> {}]

\* str.lower() on the words used.
Lower(w) ==
    CASE w = "HIGH" -> "high"
      [] w = "MEDIUM" -> "medium"
      [] w = "LOW" -> "low"
      [] w = "Contrarian" -> "contrarian"
      [] OTHER -> w

\* kw in text.lower()
Contains(text, kw) == \E w \in text.words : Lower(w) = kw

\* text.lower() raises AttributeError on None.
TextFields == {"reasoning", "contrarian_edge", "value_play", "risk_assessment"}
HasNoneText(pick) == \E f \in TextFields : pick[f].none

\* The value score without its cap of 1.0.
ValueScoreUncapped(pick) ==
    5 * pick.confidence
        + (IF Contains(pick.contrarian_edge, "contrarian") THEN 20
           ELSE IF Contains(pick.contrarian_edge, "public")
                   /\ Contains(pick.contrarian_edge, "split") THEN 10
           ELSE 0)
        + (IF Contains(pick.value_play, "exploit") THEN 15
           ELSE IF Contains(pick.value_play, "advantage") THEN 10
           ELSE 0)

_calculate_value_score(pick) ==
    LET confidence_value == 5 * pick.confidence            \* confidence / 20.0
        contrarian_bonus ==
            IF Contains(pick.contrarian_edge, "contrarian") THEN 20
            ELSE IF Contains(pick.contrarian_edge, "public")
                    /\ Contains(pick.contrarian_edge, "split") THEN 10
            ELSE 0
        value_bonus ==
            IF Contains(pick.value_play, "exploit") THEN 15
            ELSE IF Contains(pick.value_play, "advantage") THEN 10
            ELSE 0
    IN  Min(100, confidence_value + contrarian_bonus + value_bonus)

_calculate_risk_score(pick) ==
    LET confidence_risk == 100 - 5 * pick.confidence
        risk_penalty ==
            IF Contains(pick.risk_assessment, "high") THEN 30
            ELSE IF Contains(pick.risk_assessment, "medium") THEN 15
            ELSE IF Contains(pick.risk_assessment, "low") THEN -10
            ELSE 0
    IN  Max(0, Min(100, confidence_risk + risk_penalty))

_calculate_upside_potential(pick) ==
    LET base_upside == 5 * pick.confidence
        upside_bonus ==
            IF Contains(pick.reasoning, "superior") THEN 20
            ELSE IF Contains(pick.reasoning, "advantage") THEN 15
            ELSE IF Contains(pick.reasoning, "talent") THEN 10
            ELSE 0
    IN  Min(100, base_upside + upside_bonus)

_calculate_downside_risk(pick) ==
    LET base_downside == 100 - 5 * pick.confidence
    IN  IF Contains(pick.risk_assessment, "high") THEN Min(100, base_downside + 30)
        ELSE IF Contains(pick.risk_assessment, "medium") THEN Min(100, base_downside + 15)
        ELSE Max(0, base_downside - 10)

_calculate_contrarian_edge(pick) ==
    IF Contains(pick.contrarian_edge, "contrarian") THEN 80
    ELSE IF Contains(pick.contrarian_edge, "public")
            /\ Contains(pick.contrarian_edge, "split") THEN 60
    ELSE IF Contains(pick.contrarian_edge, "public") THEN 40
    ELSE 20

_calculate_public_sentiment(pick) ==
    IF Contains(pick.contrarian_edge, "favor") THEN 80
    ELSE IF Contains(pick.contrarian_edge, "split") THEN 50
    ELSE 30

_detect_sharp_money(pick) ==
    /\ pick.confidence >= 15
    /\ (Contains(pick.contrarian_edge, "sharp")
            \/ Contains(pick.contrarian_edge, "contrarian"))

_generate_optimization_recommendation(value_score, risk_score, contrarian_edge, sharp_money) ==
    IF value_score >= 80 /\ risk_score <= 30 THEN "MAXIMIZE"
    ELSE IF value_score >= 70 /\ contrarian_edge >= 60 THEN "INCREASE"
    ELSE IF sharp_money /\ value_score >= 60 THEN "CONSIDER"
    ELSE IF value_score >= 60 /\ risk_score <= 50 THEN "MODERATE"
    ELSE "MINIMIZE"

\* The ValuePlay built from one pick.
ValuePlayOf(pick) ==
    [game |-> pick.game,
     team |-> pick.team,
     confidence |-> pick.confidence,
     value_score |-> _calculate_value_score(pick),
     risk_score |-> _calculate_risk_score(pick),
     upside_potential |-> _calculate_upside_potential(pick),
     downside_risk |-> _calculate_downside_risk(pick),
     contrarian_edge |-> _calculate_contrarian_edge(pick),
     public_sentiment |-> _calculate_public_sentiment(pick),
     sharp_money_indicator |-> _detect_sharp_money(pick),
     optimization_recommendation |->
         _generate_optimization_recommendation(
             _calculate_value_score(pick), _calculate_risk_score(pick),
             _calculate_contrarian_edge(pick), _detect_sharp_money(pick))]

\* The exception analyze_value_plays ends with: no check of the pick itself
\* is made, the only failure is .lower() on a text that is None.
AnalyzeRaises(picks) ==
    IF \E i \in DOMAIN picks : HasNoneText(picks[i]) THEN "AttributeError" ELSE "none"

analyze_value_plays(picks) == [i \in DOMAIN picks |-> ValuePlayOf(picks[i])]

\* max(1, min(20, int(base_confidence * value_multiplier * (1 - risk_penalty))))
\* for the play at 0-based position i of the sorted list.
OptimizedConfidence(i, play) ==
    LET base_confidence == 20 - i
    IN  Max(1, Min(20, Trunc(base_confidence * play.value_score * (200 - play.risk_score),
                             20000)))

optimize_confidence_allocation(value_plays) ==
    LET order == StableSortDesc([i \in DOMAIN value_plays |-> value_plays[i].value_score])
    IN  [r \in DOMAIN value_plays |->
            [value_plays[order[r]] EXCEPT
                !.confidence = OptimizedConfidence(r - 1, value_plays[order[r]])]]

\* The reallocation writing the new confidences into the plays it was given.
PlaysReallocatedInPlace(value_plays) == optimize_confidence_allocation(value_plays)

\* The list passed and its plays as the call leaves them: sorted() copies the
\* list and every optimized play is a new ValuePlay.
PlaysAfterReallocation(value_plays) == value_plays

\* Analysis entries.  Every single entry with a confidence from ConfMargin
\* below 1 to ConfMargin above 20 and any of the texts below is analysed on
\* its own, and every list of up to MaxPicks entries of SampleEntries.
ConfMargin == 5
MaxPicks == 2
ConfInputs == (1 - ConfMargin)..(20 + ConfMargin)
EdgeTexts ==
    {Text({}), Text({"Contrarian"}), Text({"public", "split"}), Text({"public"}),
     Text({"sharp"}), Text({"favor"}), NoneText}
ValueTexts == {Text({}), Text({"exploit"}), Text({"advantage"}), NoneText}
RiskTexts == {Text({}), Text({"HIGH"}), Text({"MEDIUM"}), Text({"low"}), NoneText}
ReasoningTexts ==
    {Text({}), Text({"superior"}), Text({"advantage"}), Text({"talent"}), NoneText}

Entry(c, r, e, v, k) ==
    [team |-> "away", confidence |-> c, reasoning |-> r, contrarian_edge |-> e,
     value_play |-> v, risk_assessment |-> k]

Entries ==
    {Entry(c, r, e, v, k) : c \in ConfInputs, r \in ReasoningTexts, e \in EdgeTexts,
                            v \in ValueTexts, k \in RiskTexts}

SampleEntries ==
    {Entry(c, Text({}), t[1], t[2], t[3]) :
        c \in {1, 2, 18, 20, 25},
        t \in {<<Text({}), Text({}), Text({})>>,
               <<Text({"Contrarian"}), Text({"exploit"}), Text({"low"})>>,
               <<Text({"public", "split"}), Text({"advantage"}), Text({"MEDIUM"})>>,
               <<Text({}), Text({}), Text({"HIGH"})>>}}

\* The entries of a list, each with its game.
WithGames(es) == [i \in DOMAIN es |-> [f \in DOMAIN es[i] \cup {"game"} |->
                                          IF f = "game" THEN i ELSE es[i][f]]]

PickLists ==
    {WithGames(<<e>>) : e \in Entries}
    \cup {WithGames(es) : es \in SeqsOf(SampleEntries, 0, MaxPicks)}

AnalyzeValuePlays ==
    /\ op = "analyze_value_plays" /\ pc = "call"
    /\ pc' = "done"
    /\ raised' = AnalyzeRaises(arg)
    /\ ret' = IF AnalyzeRaises(arg) = "none" THEN analyze_value_plays(arg) ELSE <<>>
    /\ UNCHANGED <<output_dir, database, usage_data, now, team_power_ratings, random_state, generated, points_behind_leader, op, arg, after>>

\* The plays a completed analysis returned are reallocated.
OptimizeConfidenceAllocation ==
    /\ op = "analyze_value_plays" /\ pc = "done" /\ raised = "none"
    /\ op' = "optimize_confidence_allocation"
    /\ arg' = ret
    /\ after' = PlaysAfterReallocation(ret)
    /\ ret' = optimize_confidence_allocation(ret)
    /\ UNCHANGED <<output_dir, database, usage_data, now, team_power_ratings, random_state, generated, points_behind_leader, pc, raised>>

----------------------------------------------------------------------------
(* Combiner of the core: PoolDominationSystem.combine_llm_analyses *)

\* Numeric fields of a game entry are in tenths.  round(x, 1) of n/d: to the
\* nearest tenth, an exact tie to the even one.
RoundDiv(n, d) ==
    LET q == n \div d
        r == n % d
    IN  IF 2 * r < d THEN q
        ELSE IF 2 * r > d THEN q + 1
        ELSE IF q % 2 = 0 THEN q ELSE q + 1

RECURSIVE SumSeq(_)
SumSeq(s) == IF s = <<>> THEN 0 ELSE s[1] + SumSeq(Tail(s))

\* The elements of s, each kept where it comes first.
RECURSIVE Dedup(_)
Dedup(s) ==
    IF s = <<>> THEN <<>>
    ELSE LET rest == Dedup(SubSeq(s, 1, Len(s) - 1))
             x    == s[Len(s)]
         IN  IF x \in Range(rest) THEN rest ELSE Append(rest, x)

RECURSIVE Flatten(_)
Flatten(ss) == IF ss = <<>> THEN <<>> ELSE ss[1] \o Flatten(Tail(ss))

\* game["source"] = name
WithSource(game, name) ==
    [k \in DOMAIN game \cup {"source"} |-> IF k = "source" THEN name ELSE game[k]]

\* The input analyses after the loop that collects all_games: every game
\* entry of every analysis has been given its "source".
TaggedAnalyses(analyses) ==
    [i \in DOMAIN analyses |->
        [analyses[i] EXCEPT !.analysis.games =
            [j \in DOMAIN analyses[i].analysis.games |->
                WithSource(analyses[i].analysis.games[j], analyses[i].name)]]]

\* all_games: the (tagged) game entries of all analyses, in order.
AllGames(analyses) ==
    Flatten([i \in DOMAIN analyses |-> TaggedAnalyses(analyses)[i].analysis.games])

\* The first value in place of the mean.
FirstValue(values) == values[1]

\* round(sum(values) / len(values), 1)
Mean(values) == RoundDiv(SumSeq(values), Len(values))

\* sum(v * w for v, w in zip(values, weights)), weights = c / sum(confidence_scores)
WeightedMean(values, scores) ==
    RoundDiv(SumSeq([i \in DOMAIN values |-> values[i] * scores[i]]), SumSeq(scores))

\* max(games, key=confidence_score): the first of the highest.
BestGame(games) ==
    games[CHOOSE i \in DOMAIN games :
            /\ \A j \in DOMAIN games : games[j].confidence_score <= games[i].confidence_score
            /\ \A j \in 1..(i - 1) : games[j].confidence_score < games[i].confidence_score]

\* The entries modelled carry the numeric fields (none of them None) and no
\* injuries, weather or situational_factors, and their confidence scores are
\* positive (a zero sum of scores ends the weighted method in a
\* ZeroDivisionError that is caught and drops the game).
_combine_game_analyses(games, method) ==
    IF Len(games) = 1 THEN games[1]
    ELSE
        LET spreads == [i \in DOMAIN games |-> games[i].spread]
            publics == [i \in DOMAIN games |-> games[i].public_percentage]
            scores  == [i \in DOMAIN games |-> games[i].confidence_score]
            best    == BestGame(games)
        IN  [game |-> games[1].game,
             week |-> games[1].week,
             spread |-> CASE method = "weighted" -> WeightedMean(spreads, scores)
                          [] method = "best" -> best.spread
                          [] OTHER -> Mean(spreads),
             public_percentage |-> CASE method = "weighted" -> WeightedMean(publics, scores)
                                     [] method = "best" -> best.public_percentage
                                     [] OTHER -> Mean(publics),
             confidence_score |-> CASE method = "weighted" -> WeightedMean(scores, scores)
                                    [] method = "best" -> best.confidence_score
                                    [] OTHER -> Mean(scores),
             injuries |-> "",
             weather |-> "",
             situational_factors |-> <<>>,
             sources |-> [i \in DOMAIN games |-> games[i].source],
             combination_method |-> method]

\* The combination of two or more analyses.
CombinedAnalysis(analyses, method) ==
    LET all_games == AllGames(analyses)
        ids       == Dedup([i \in DOMAIN all_games |-> all_games[i].game])
        Group(id) == SelectSeq(all_games, LAMBDA g : g.game = id)
    IN  [week |-> analyses[1].analysis.week,
         games |-> [k \in DOMAIN ids |-> _combine_game_analyses(Group(ids[k]), method)],
         combination_method |-> method,
         sources |-> [i \in DOMAIN analyses |-> analyses[i].name],
         timestamp |-> "now"]

\* combine_llm_analyses with the single-analysis return left out.
CombineAlways(analyses, method) ==
    IF analyses = <<>> THEN <<>> ELSE CombinedAnalysis(analyses, method)

\* None for no analyses.
combine_llm_analyses(analyses, method) ==
    IF analyses = <<>> THEN <<>>
    ELSE IF Len(analyses) = 1 THEN analyses[1].analysis
    ELSE CombinedAnalysis(analyses, method)

\* The analyses as the call leaves them: untouched by the two early returns,
\* tagged otherwise.
AnalysesAfterCombine(analyses) ==
    IF Len(analyses) <= 1 THEN analyses ELSE TaggedAnalyses(analyses)

\* Up to MaxSources analyses of up to MaxAnalysisGames game entries each.
MaxSources == 2
MaxAnalysisGames == 1
GameIds == {"KC@NYG", "DAL@CHI"}
\* One game is rated 10.0 or 20.0, the other 7.5 or 10.0.
EntryScores(g) == IF g = "KC@NYG" THEN {100, 200} ELSE {75, 100}
GameEntries ==
    UNION {{[game |-> g, week |-> 3, spread |-> 300 - c, public_percentage |-> 400 + c,
             confidence_score |-> c] : c \in EntryScores(g)} : g \in GameIds}
CoreAnalyses == {[week |-> 3, games |-> gs] : gs \in SeqsOf(GameEntries, 0, MaxAnalysisGames)}
\* cli.py names the analyses by their place.
CoreSourceName(i) == IF i = 1 THEN "automated" ELSE IF i = 2 THEN "manual_1" ELSE "manual_2"
CoreAnalysisLists ==
    {[i \in DOMAIN as |-> [name |-> CoreSourceName(i), analysis |-> as[i]]] :
        as \in SeqsOf(CoreAnalyses, 0, MaxSources)}
CombineMethods == {"average", "weighted", "best", "median"}

CombineLLMAnalyses ==
    /\ op = "combine_llm_analyses" /\ pc = "call"
    /\ pc' = "done"
    /\ after' = [arg EXCEPT !.analyses = AnalysesAfterCombine(arg.analyses)]
    /\ ret' = combine_llm_analyses(arg.analyses, arg.method)
    /\ UNCHANGED <<output_dir, database, usage_data, now, team_power_ratings, random_state, generated, points_behind_leader, op, arg, raised>>

----------------------------------------------------------------------------
(* Combiner of the LLM analyses: MultiLLMAnalyzer.combine_analyses *)

\* An analysis either has no 'contrarian_analysis' or has one whose three
\* sections each hold one list of games: contrarian_opportunities in
\* public_betting_analysis, weather_plays in weather_impact and injury_value
\* in injury_analysis.  Weights are in tenths.
llm_weights(llm_name) ==
    CASE llm_name = "grok" -> 4
      [] llm_name = "chatgpt" -> 6
      [] OTHER -> 5                       \* self.llm_weights.get(llm_name, 0.5)

\* The games one analysis mentions, in the order the loops visit them.
Mentions(analysis) ==
    IF analysis.contrarian_analysis
    THEN analysis.public_betting_analysis \o analysis.weather_impact
            \o analysis.injury_analysis
    ELSE <<>>

\* Every mention of every analysis, in visiting order, with its source.
AllMentions(analyses) ==
    Flatten([i \in DOMAIN analyses |->
                [j \in DOMAIN Mentions(analyses[i].analysis) |->
                    [llm |-> analyses[i].name,
                     game |-> Mentions(analyses[i].analysis)[j]]]])

\* game_mentions[game]: the source names appended, one per mention.
GameMentions(analyses, game) ==
    LET hits == SelectSeq(AllMentions(analyses), LAMBDA m : m.game = game)
    IN  [i \in DOMAIN hits |-> hits[i].llm]

\* The keys of game_mentions / game_scores, in insertion order.
MentionedGames(analyses) ==
    Dedup([i \in DOMAIN AllMentions(analyses) |-> AllMentions(analyses)[i].game])

_consensus_combination(analyses) ==
    [consensus_games |->
        SelectSeq(MentionedGames(analyses),
                  LAMBDA g : Len(GameMentions(analyses, g)) > 1)]

\* game_scores[game] before normalisation: weight added at every mention.
GameScore(analyses, game) ==
    LET names == GameMentions(analyses, game)
    IN  SumSeq([i \in DOMAIN names |-> llm_weights(names[i])])

\* game_scores[game] with each source's weight added once.
GameScoreOncePerSource(analyses, game) ==
    LET names == Dedup(GameMentions(analyses, game))
    IN  SumSeq([i \in DOMAIN names |-> llm_weights(names[i])])

\* A score divided by total_weight, the sum of the configured weights (1.0),
\* which the code computes and does not use.
NormalizedByTotal(score, max_score) == (1000 * score) \div 10

\* A score divided by the highest score, in thousandths.
Normalized(score, max_score) == (1000 * score) \div max_score

MaxOf(S) == CHOOSE x \in S : \A y \in S : y <= x

\* The weighted result built from a scoring of the games.
WeightedFrom(analyses, Score(_, _)) ==
    LET games  == MentionedGames(analyses)
        max_score == MaxOf({Score(analyses, g) : g \in Range(games)})
        scores == [i \in DOMAIN games |->
                     [game |-> games[i],
                      score |-> Normalized(Score(analyses, games[i]), max_score)]]
        order  == StableSortDesc([i \in DOMAIN scores |-> scores[i].score])
    IN  [confidence_scores |-> scores,
         weighted_games |-> [r \in DOMAIN scores |-> scores[order[r]]]]

WeightedOncePerSource(analyses) == WeightedFrom(analyses, GameScoreOncePerSource)

_weighted_combination(analyses) == WeightedFrom(analyses, GameScore)

\* The contrarian_opportunities of the sources that list any, and who listed them.
_best_combination(analyses) ==
    LET listing == SelectSeq(analyses,
                     LAMBDA a : a.analysis.contrarian_analysis
                                /\ a.analysis.public_betting_analysis # <<>>)
    IN  [source_llm |-> [i \in DOMAIN listing |->
                            [llm |-> listing[i].name,
                             games |-> listing[i].analysis.public_betting_analysis]],
         best_games |-> Dedup(Flatten([i \in DOMAIN listing |->
                                listing[i].analysis.public_betting_analysis]))]

CombineRaises(strategy) ==
    IF strategy \in {"consensus", "weighted", "best"} THEN "none" ELSE "ValueError"

combine_analyses(analyses, strategy) ==
    CASE strategy = "consensus" -> _consensus_combination(analyses)
      [] strategy = "weighted" -> _weighted_combination(analyses)
      [] strategy = "best" -> _best_combination(analyses)
      [] OTHER -> <<>>

\* Up to MaxSources analyses under distinct names.
LLMNames == {"grok", "chatgpt", "manual"}
LLMAnalyses ==
    {[contrarian_analysis |-> FALSE, public_betting_analysis |-> <<>>,
      weather_impact |-> <<>>, injury_analysis |-> <<>>]}
    \cup {[contrarian_analysis |-> TRUE, public_betting_analysis |-> p,
           weather_impact |-> w, injury_analysis |-> i] :
            p \in {<<>>, <<"KC@NYG">>, <<"DAL@CHI", "KC@NYG">>},
            w \in {<<>>, <<"KC@NYG">>, <<"DAL@CHI">>},
            i \in {<<>>, <<"KC@NYG">>}}
LLMAnalysisDicts ==
    {[i \in DOMAIN ns |-> [name |-> ns[i], analysis |-> as[i]]] :
        <<ns, as>> \in UNION {{n \in [1..k -> LLMNames] : \A i, j \in 1..k : i # j => n[i] # n[j]}
                                \X [1..k -> LLMAnalyses] : k \in 0..MaxSources}}
CombineStrategies == {"consensus", "weighted", "best", "average"}

CombineAnalyses ==
    /\ op = "combine_analyses" /\ pc = "call"
    /\ pc' = "done"
    /\ raised' = CombineRaises(arg.strategy)
    /\ ret' = combine_analyses(arg.analyses, arg.strategy)
    /\ UNCHANGED <<output_dir, database, usage_data, now, team_power_ratings, random_state, generated, points_behind_leader, op, arg, after>>

----------------------------------------------------------------------------
(* Candidate scorers: PoolDominationSystem._generate_*_picks *)

\* A game string is modelled by what split("@") makes of it: "KC@NYG" is
\* <<"KC", "NYG">>, "KC-NYG" is <<"KC-NYG">>, "KC@" is <<"KC", "">>.
\* Ratings are in points, confidences in tenths.
HasAt(game) == Len(game) >= 2                        \* "@" in game

\* The table __init__ gives team_power_ratings; the literal lists CLEV and GB
\* twice and the later entry stands.
InitialRatings ==
    ("KC" :> 95 @@ "BALT" :> 92 @@ "SF" :> 91 @@ "BUF" :> 90 @@ "DAL" :> 89
     @@ "PHIL" :> 88 @@ "MIA" :> 87 @@ "DET" :> 86 @@ "HOU" :> 84 @@ "LAR" :> 82
     @@ "SEA" :> 81 @@ "TB" :> 80 @@ "IND" :> 79 @@ "CINC" :> 78 @@ "PITT" :> 77
     @@ "LV" :> 76 @@ "NO" :> 75 @@ "ATL" :> 74 @@ "CHI" :> 73 @@ "NYG" :> 72
     @@ "WASH" :> 71 @@ "CAR" :> 70 @@ "DEN" :> 69 @@ "NYJ" :> 68 @@ "TENN" :> 67
     @@ "JAC" :> 66 @@ "LAC" :> 65 @@ "MINN" :> 64 @@ "ARIZ" :> 63 @@ "NE" :> 62
     @@ "CLEV" :> 61 @@ "GB" :> 60)

\* self.team_power_ratings.get(team, 50)
RatingOf(team) ==
    IF team \in DOMAIN team_power_ratings THEN team_power_ratings[team] ELSE 50

AwayRating(game) == RatingOf(game[1])
HomeRating(game) == RatingOf(game[2]) + 3

CandidatePick(game, winner, conf, spread) ==
    [game |-> game, predicted_winner |-> winner, confidence_points |-> 1,
     conf |-> conf, spread |-> spread, public_pct |-> 50]

\* A pick whose spread and conf were computed from noisy ratings, with the
\* errors the float additions left in their last place.
WithRounding(pick, spread_ulps, conf_ulps) ==
    [f \in DOMAIN pick \cup {"spread_ulps", "conf_ulps"} |->
        IF f = "spread_ulps" THEN spread_ulps
        ELSE IF f = "conf_ulps" THEN conf_ulps ELSE pick[f]]

\* Pick.__post_init__
PickInvalid(pick) ==
    \/ pick.confidence_points < 1 \/ pick.confidence_points > 20
    \/ (pick.conf # 0 /\ (pick.conf < 0 \/ pick.conf > 1000))

\* What one well-split game adds to picks: <<>> or one pick.  draw holds the
\* random values the variance scorers take for the game.
\* The protective scorer keeping a game at a difference of exactly 5.
ProtectiveKeepsFive(game) ==
    LET away == AwayRating(game)
        home == HomeRating(game)
    IN  IF home >= away + 5
        THEN <<CandidatePick(game, game[2], Min(850, 500 + (home - away) * 20), home - away)>>
        ELSE IF away >= home + 5
        THEN <<CandidatePick(game, game[1], Min(850, 500 + (away - home) * 20), home - away)>>
        ELSE <<>>

ProtectiveCandidate(game) ==
    LET away == AwayRating(game)
        home == HomeRating(game)
    IN  IF home > away + 5
        THEN <<CandidatePick(game, game[2], Min(850, 500 + (home - away) * 20), home - away)>>
        ELSE IF away > home + 5
        THEN <<CandidatePick(game, game[1], Min(850, 500 + (away - home) * 20), home - away)>>
        ELSE <<>>

\* The balanced scorer with the slope of the protective one.
BalancedSlopeTwo(game) ==
    LET away == AwayRating(game)
        home == HomeRating(game)
    IN  <<CandidatePick(game, IF home > away THEN game[2] ELSE game[1],
                        500 + Min(350, Abs(home - away) * 20), home - away)>>

BalancedCandidate(game) ==
    LET away == AwayRating(game)
        home == HomeRating(game)
    IN  <<CandidatePick(game, IF home > away THEN game[2] ELSE game[1],
                        500 + Min(350, Abs(home - away) * 15), home - away)>>

\* The high variance scorer without the cap of 40 on the rating term.
HighVarianceUncapped(game, draw) ==
    LET away == AwayRating(game) + draw.variance
        home == HomeRating(game) + draw.variance
        favourite == IF home > away THEN game[2] ELSE game[1]
        underdog  == IF home > away THEN game[1] ELSE game[2]
    IN  <<CandidatePick(game, IF draw.underdog THEN underdog ELSE favourite,
                        500 + Abs(home - away) * 12, home - away)>>

\* The high variance scorer with the noise added to the home rating only.
HighVarianceHomeNoise(game, draw) ==
    LET away == AwayRating(game)
        home == HomeRating(game) + draw.variance
        favourite == IF home > away THEN game[2] ELSE game[1]
        underdog  == IF home > away THEN game[1] ELSE game[2]
    IN  <<WithRounding(CandidatePick(game, IF draw.underdog THEN underdog ELSE favourite,
                                     500 + Min(400, Abs(home - away) * 12), home - away),
                       0, 0)>>

\* (home_rating + variance) - (away_rating + variance) in floating point:
\* equal ratings give equal sums, and a cap of the confidence hides the error.
HighVarianceCandidate(game, draw) ==
    LET away == AwayRating(game) + draw.variance
        home == HomeRating(game) + draw.variance
        favourite == IF home > away THEN game[2] ELSE game[1]
        underdog  == IF home > away THEN game[1] ELSE game[2]
        spread_ulps == IF home = away THEN 0 ELSE draw.spread_ulps
        conf_ulps == IF spread_ulps = 0 \/ Abs(home - away) * 12 >= 400 THEN 0
                     ELSE draw.conf_ulps
    IN  <<WithRounding(CandidatePick(game, IF draw.underdog THEN underdog ELSE favourite,
                                     500 + Min(400, Abs(home - away) * 12), home - away),
                       spread_ulps, conf_ulps)>>

MaximumVarianceCandidate(game, draw) ==
    LET away == AwayRating(game) + draw.variance
        home == HomeRating(game) + draw.variance
        favourite == IF home > away THEN game[2] ELSE game[1]
        underdog  == IF home > away THEN game[1] ELSE game[2]
    IN  <<WithRounding(CandidatePick(game, IF draw.underdog THEN underdog ELSE favourite,
                                     draw.confidence, home - away),
                       IF home = away THEN 0 ELSE draw.spread_ulps, 0)>>

Candidate(scorer, game, draw) ==
    CASE scorer = "_generate_protective_picks" -> ProtectiveCandidate(game)
      [] scorer = "_generate_balanced_picks" -> BalancedCandidate(game)
      [] scorer = "_generate_high_variance_picks" -> HighVarianceCandidate(game, draw)
      [] scorer = "_generate_maximum_variance_picks" -> MaximumVarianceCandidate(game, draw)

\* away, home = game.split("@") raises ValueError unless there are two parts;
\* a game without "@" is passed over.
ScorerRaises(games) ==
    IF \E i \in DOMAIN games : HasAt(games[i]) /\ Len(games[i]) # 2
    THEN "ValueError" ELSE "none"

\* Pick(...) raises ValueError when __post_init__ rejects a candidate.
CandidateRaises(scorer, games, draws) ==
    IF \E i \in DOMAIN games :
            /\ HasAt(games[i]) /\ Len(games[i]) = 2
            /\ \E j \in DOMAIN Candidate(scorer, games[i], draws[i]) :
                    PickInvalid(Candidate(scorer, games[i], draws[i])[j])
    THEN "ValueError" ELSE "none"

\* The exception a scorer ends with.
GenerateCandidatesRaises(scorer, games, draws) ==
    IF ScorerRaises(games) # "none" THEN ScorerRaises(games)
    ELSE CandidateRaises(scorer, games, draws)

GeneratePicks(scorer, games, draws) ==
    Take(Flatten([i \in DOMAIN games |->
                    IF HasAt(games[i]) THEN Candidate(scorer, games[i], draws[i]) ELSE <<>>]),
         20)

\* Up to MaxGames games of GameStrings, with one draw of each random value
\* for every game.
MaxGames == 2
GameStrings ==
    {<<"KC", "NYG">>, <<"DAL", "CHI">>, <<"CHI", "NYG">>, <<"NO", "NYG">>,
     <<"UW", "WSU">>, <<"KC-NYG">>, <<"KC", "">>, <<"", "NYG">>,
     <<"KC", "NYG", "EXTRA">>}
\* Single games whose rating difference is at a threshold of a scorer: 5 and
\* 6 points either way, and more than any cap.
BoundaryGames ==
    {<<"NYG", "ATL">>, <<"WASH", "ATL">>, <<"TB", "NYG">>, <<"SEA", "NYG">>,
     <<"KC", "WSU">>, <<"WSU", "KC">>}
\* A schedule of n games, longer than the twenty picks a scorer returns.
MaxSchedule == 22
ScheduleGames ==
    <<<<"KC", "NYG">>, <<"DAL", "CHI">>, <<"PHIL", "TB">>, <<"BALT", "KC">>,
      <<"MINN", "PITT">>, <<"UW", "WSU">>, <<"NO", "NYG">>>>
LongSchedule(n) == [i \in 1..n |-> ScheduleGames[((i - 1) % Len(ScheduleGames)) + 1]]
\* A rating table that rates KC, DAL and CHI only, and two games under it.
ExampleRatings == ("KC" :> 95 @@ "DAL" :> 89 @@ "CHI" :> 73)
ExampleGames == {<<"KC", "NYG">>, <<"DAL", "CHI">>}
\* A draw of the noise has a whole part, variance, which the model adds as
\* the code does, and a fraction, which leaves no trace but the rounding of
\* the two float additions: spread_ulps is the error it leaves in the last
\* place of home_rating - away_rating, conf_ulps the error that leaves in
\* the last place of the confidence.  A whole draw leaves none.
NoDraw == [variance |-> 0, underdog |-> FALSE, confidence |-> 0,
           spread_ulps |-> 0, conf_ulps |-> 0]
HighVarianceDraws ==
    {[variance |-> v, underdog |-> u, confidence |-> 0, spread_ulps |-> 0, conf_ulps |-> 0] :
        v \in {-10, 10}, u \in BOOLEAN}
MaximumVarianceDraws ==
    {[variance |-> v, underdog |-> u, confidence |-> c, spread_ulps |-> 0, conf_ulps |-> 0] :
        v \in {-20, 20}, u \in BOOLEAN, c \in {600, 900}}
\* Draws of the noise with a fraction: every rounding it can leave.
FractionalDraws ==
    {[variance |-> 0, underdog |-> u, confidence |-> 750, spread_ulps |-> e, conf_ulps |-> k] :
        u \in BOOLEAN, e \in {-1, 0, 1}, k \in {-1, 0, 1}}
NoiseGames == {<<"KC", "NYG">>, <<"KC", "WSU">>, <<"NO", "NYG">>}
DrawsOf(scorer) ==
    CASE scorer = "_generate_high_variance_picks" -> HighVarianceDraws
      [] scorer = "_generate_maximum_variance_picks" -> MaximumVarianceDraws
      [] OTHER -> {NoDraw}
Scorers ==
    {"_generate_protective_picks", "_generate_balanced_picks",
     "_generate_high_variance_picks", "_generate_maximum_variance_picks"}

Generate(scorer) ==
    /\ op = scorer /\ pc = "call"
    /\ pc' = "done"
    /\ raised' = GenerateCandidatesRaises(scorer, arg.games, arg.draws)
    /\ ret' = IF GenerateCandidatesRaises(scorer, arg.games, arg.draws) = "none"
              THEN GeneratePicks(scorer, arg.games, arg.draws) ELSE <<>>
    /\ UNCHANGED <<output_dir, database, usage_data, now, team_power_ratings, random_state, generated, points_behind_leader, op, arg, after>>

GenerateProtectivePicks == Generate("_generate_protective_picks")
GenerateBalancedPicks == Generate("_generate_balanced_picks")
GenerateHighVariancePicks == Generate("_generate_high_variance_picks")
GenerateMaximumVariancePicks == Generate("_generate_maximum_variance_picks")

----------------------------------------------------------------------------
(* Pick generation: PoolDominationSystem.generate_optimal_picks *)

\* The generator of module random is modelled by a generator of RandomStates
\* states: a seed is a state, every call of random.random() moves to the
\* next state and returns state / RandomStates, a number in [0, 1).
RandomStates == 10
RandomAfter(state, n) == (state + 3 * n) % RandomStates     \* after n calls

\* random.uniform(a, b) = a + (b - a) * random(), with the state the call
\* leaves, to a whole number of the unit of a and b.
Uniform(a, b, state) == a + ((b - a) * state) \div RandomStates

\* random.random() < tenths / 10, with the state the call leaves.
RandomBelow(tenths, state) == 10 * state < tenths * RandomStates

\* The calls of the generator a scorer makes for one game that has an "@".
DrawsPerGame(scorer) ==
    CASE scorer = "_generate_high_variance_picks" -> 2
      [] scorer = "_generate_maximum_variance_picks" -> 3
      [] OTHER -> 0

\* The games with an "@" among the first n.
GamesWithAt(games, n) == Cardinality({j \in 1..n : HasAt(games[j])})

\* The values a scorer draws for each game when the generator starts in state.
StreamDraws(scorer, games, state) ==
    [i \in DOMAIN games |->
        LET base == RandomAfter(state, DrawsPerGame(scorer) * GamesWithAt(games, i - 1))
        IN  CASE scorer = "_generate_high_variance_picks" ->
                    [variance |-> Uniform(-10, 10, RandomAfter(base, 1)),
                     underdog |-> RandomBelow(3, RandomAfter(base, 2)),
                     confidence |-> 0, spread_ulps |-> 0, conf_ulps |-> 0]
              [] scorer = "_generate_maximum_variance_picks" ->
                    [variance |-> Uniform(-20, 20, RandomAfter(base, 1)),
                     confidence |-> Uniform(600, 900, RandomAfter(base, 2)),
                     underdog |-> RandomBelow(6, RandomAfter(base, 3)),
                     spread_ulps |-> 0, conf_ulps |-> 0]
              [] OTHER -> NoDraw]

\* The games a scorer reaches: all of them, or those before the first one
\* whose split raises.
GamesReached(games) ==
    IF ScorerRaises(games) = "none" THEN Len(games)
    ELSE (CHOOSE r \in DOMAIN games :
            /\ HasAt(games[r]) /\ Len(games[r]) # 2
            /\ \A j \in 1..(r - 1) : ~(HasAt(games[j]) /\ Len(games[j]) # 2)) - 1

\* The state a scorer leaves the generator in.
StreamAfter(scorer, games, state) ==
    RandomAfter(state, DrawsPerGame(scorer) * GamesWithAt(games, GamesReached(games)))

\* self.schedule.get(week, {}).get("games", []) for the schedule loaded:
\* week 1 is a bye week, week 3 has four games, week 4 only games of teams
\* without a rating, week 5 more than twenty games; no other week is listed.
BYE == <<"BYE">>
schedule(week) ==
    CASE week = 1 -> <<BYE, BYE>>
      [] week = 3 -> <<<<"KC", "NYG">>, <<"DAL", "CHI">>, <<"UW", "WSU">>, <<"CAR", "NE">>>>
      [] week = 4 -> <<<<"CAL", "BC">>, <<"SJSU", "STAN">>>>
      [] week = 5 ->
            <<<<"CAL", "BC">>, <<"SJSU", "STAN">>, <<"ORE", "PSU">>, <<"ALA", "GEO">>,
              <<"SEA", "ARIZ">>, <<"MINN", "PITT">>, <<"WASH", "ATL">>, <<"NO", "BUFF">>,
              <<"CLEV", "DET">>, <<"TENN", "HOU">>, <<"CAR", "NE">>, <<"LAC", "NYG">>,
              <<"PHIL", "TB">>, <<"IND", "LAR">>, <<"JAC", "SF">>, <<"BALT", "KC">>,
              <<"CHI", "LV">>, <<"GB", "DAL">>, <<"NYJ", "MIA">>, <<"CINC", "DEN">>,
              <<"KC", "NYG">>, <<"DET", "BALT">>>>
      [] OTHER -> <<>>
Weeks == {1, 3, 4, 5, 6}

ScorerOf(strategy) ==
    CASE strategy = "protective" -> "_generate_protective_picks"
      [] strategy = "balanced" -> "_generate_balanced_picks"
      [] strategy = "high_variance" -> "_generate_high_variance_picks"
      [] strategy = "maximum_variance" -> "_generate_maximum_variance_picks"
      [] OTHER -> "_generate_balanced_picks"

\* pick.strategy_tag = strategy; pick.week = week
Tagged(pick, strategy, week) ==
    [f \in DOMAIN pick \cup {"strategy_tag", "week"} |->
        IF f = "strategy_tag" THEN strategy ELSE IF f = "week" THEN week ELSE pick[f]]

\* A generation that never finds a week without games.
NoGamesNever(week) == FALSE

\* not week_games or week_games == ["BYE", "BYE"]
NoGames(week) == schedule(week) = <<>> \/ schedule(week) = <<BYE, BYE>>

GenerateRaises(week, deficit, state) ==
    LET scorer == ScorerOf(_determine_strategy(deficit))
    IN  IF NoGames(week) THEN "ValueError"
        ELSE GenerateCandidatesRaises(scorer, schedule(week),
                                      StreamDraws(scorer, schedule(week), state))

\* The same run drawing from a generator that nothing can seed: the draws
\* also depend on the calls made before.
GenerateUnseeded(week, deficit, state) ==
    LET strategy == _determine_strategy(deficit)
        picks == GeneratePicks(ScorerOf(strategy), schedule(week),
                    StreamDraws(ScorerOf(strategy), schedule(week),
                                RandomAfter(state, Len(generated))))
        assigned == _apply_fibonacci_assignment(picks)
    IN  [i \in DOMAIN assigned |-> Tagged(assigned[i], strategy, week)]

generate_optimal_picks(week, deficit, state) ==
    LET strategy == _determine_strategy(deficit)
        picks == GeneratePicks(ScorerOf(strategy), schedule(week),
                    StreamDraws(ScorerOf(strategy), schedule(week), state))
        assigned == _apply_fibonacci_assignment(picks)
    IN  [i \in DOMAIN assigned |-> Tagged(assigned[i], strategy, week)]

\* The state generate_optimal_picks leaves the generator in.
GenerateLeaves(week, deficit, state) ==
    IF NoGames(week) THEN state
    ELSE StreamAfter(ScorerOf(_determine_strategy(deficit)), schedule(week), state)

\* Up to MaxRuns runs, the generator seeded with a seed of 0..MaxSeed at any
\* time between them, for one deficit of each strategy.
MaxRuns == 2
MaxSeed == 1
Seeds == 0..MaxSeed
GenerateDeficits == {Points(-40), Points(-10), Points(10), Points(60)}

\* random.seed(s)
SeedRandom ==
    \E s \in Seeds :
        /\ pc = "done" /\ op # "random.seed" /\ Len(generated) < MaxRuns
        /\ op' = "random.seed"
        /\ arg' = s
        /\ after' = s
        /\ ret' = <<>>
        /\ raised' = "none"
        /\ random_state' = s
        /\ UNCHANGED <<output_dir, database, usage_data, now, team_power_ratings, points_behind_leader, pc, generated>>

GenerateOptimalPicks ==
    \E week \in Weeks :
        LET result == IF GenerateRaises(week, points_behind_leader, random_state) = "none"
                      THEN generate_optimal_picks(week, points_behind_leader, random_state)
                      ELSE <<>>
        IN  /\ pc = "done" /\ Len(generated) < MaxRuns
            /\ op' = "generate_optimal_picks"
            /\ arg' = week
            /\ after' = week
            /\ raised' = GenerateRaises(week, points_behind_leader, random_state)
            /\ ret' = result
            /\ random_state' = GenerateLeaves(week, points_behind_leader, random_state)
            /\ generated' = Append(generated,
                                [week |-> week, seed |-> random_state, picks |-> result,
                                 raised |-> GenerateRaises(week, points_behind_leader,
                                                           random_state)])
            /\ UNCHANGED <<output_dir, database, usage_data, now, team_power_ratings, points_behind_leader, pc>>

----------------------------------------------------------------------------
(* core.py: the week of a date *)

\* A YYYY-MM-DD string is the sequence of its "-"-separated numbers; a
\* schedule "dates" string such as "9/18-9/22" is the sequence of its
\* "-"-separated parts, each the sequence of its "/"-separated numbers.

IsLeap(year) == (year % 4 = 0 /\ year % 100 # 0) \/ year % 400 = 0

DaysInMonth(year, month) ==
    IF month = 2 THEN (IF IsLeap(year) THEN 29 ELSE 28)
    ELSE IF month \in {4, 6, 9, 11} THEN 30 ELSE 31

RECURSIVE DaysBeforeMonth(_, _)
DaysBeforeMonth(year, month) ==
    IF month <= 1 THEN 0
    ELSE DaysBeforeMonth(year, month - 1) + DaysInMonth(year, month - 1)

RECURSIVE DaysBeforeYear(_)
DaysBeforeYear(year) ==
    IF year <= 2024 THEN 0
    ELSE DaysBeforeYear(year - 1) + (IF IsLeap(year - 1) THEN 366 ELSE 365)

\* datetime(year, month, day), as the count of its days from 2024-01-01
Datetime(year, month, day) == DaysBeforeYear(year) + DaysBeforeMonth(year, month) + day

\* datetime.strptime(date, "%Y-%m-%d") raises
StrptimeRaises(date) ==
    \/ Len(date) # 3
    \/ date[2] \notin 1..12
    \/ date[3] \notin 1..DaysInMonth(date[1], date[2])

\* PoolDominationSystem._get_default_schedule: the "dates" of its weeks
schedule_dates ==
    <<  <<<<9, 4>>, <<9, 8>>>>,
        <<<<9, 11>>, <<9, 15>>>>,
        <<<<9, 18>>, <<9, 22>>>>,
        <<<<9, 25>>, <<9, 29>>>>  >>

\* The year the code gives the days of the schedule.
ScheduleYear == 2024

\* The body of the loop for one week: the week matches the target date.
WeekMatches(week, target_date) ==
    LET date_range == schedule_dates[week]
        start_date == Datetime(ScheduleYear, date_range[1][1], date_range[1][2])
        end_date   == Datetime(ScheduleYear, date_range[2][1], date_range[2][2])
    IN  /\ Len(date_range) = 2
        /\ \/ start_date <= target_date /\ target_date <= end_date
           \/ start_date - 1 <= target_date /\ target_date < start_date

\* PoolDominationSystem._get_week_from_date
_get_week_from_date(date) ==
    IF StrptimeRaises(date) THEN 3
    ELSE LET target_date == Datetime(date[1], date[2], date[3])
             matching == {week \in DOMAIN schedule_dates : WeekMatches(week, target_date)}
         IN  IF matching = {} THEN 3
             ELSE CHOOSE week \in matching : \A other \in matching : week <= other

MaxDay == 31
DateStrings ==
    {<<y, m, d>> : y \in {2024, 2025}, m \in {8, 9, 10}, d \in 1..MaxDay}
        \cup {<<2025, 9>>, <<2025, 13, 1>>}

GetWeekFromDate ==
    /\ op = "_get_week_from_date" /\ pc = "call"
    /\ pc' = "done"
    /\ ret' = _get_week_from_date(arg)
    /\ UNCHANGED <<output_dir, database, usage_data, now, team_power_ratings, random_state, generated, points_behind_leader, op, arg, after, raised>>

----------------------------------------------------------------------------
(* excel_automation.py *)

\* A value that may be None is <<>> for None and <<v>> for the value v; a
\* string is the sequence of its characters.
None == <<>>
Some(v) == <<v>>
IsNone(x) == x = <<>>

RECURSIVE LStrip(_)
LStrip(chars) ==
    IF chars # <<>> /\ Head(chars) = " " THEN LStrip(Tail(chars)) ELSE chars

RECURSIVE RStrip(_)
RStrip(chars) ==
    IF chars # <<>> /\ chars[Len(chars)] = " "
    THEN RStrip(SubSeq(chars, 1, Len(chars) - 1)) ELSE chars

\* str.strip()
Strip(chars) == RStrip(LStrip(chars))

\* the truth value of an optional string: None and "" are false
Truthy(x) == ~IsNone(x) /\ x[1] # <<>>

\* The checks of validate_picks, in the order of the code.  A pick is a
\* dict with the keys team (an optional string) and confidence.
ValidateErrors(picks) ==
    LET confidences == [i \in DOMAIN picks |-> picks[i].confidence]
        empty_teams == {i \in DOMAIN picks : Strip(picks[i].team[1]) = <<>>}
    IN  (IF Len(picks) # 20 THEN <<"Expected 20 picks">> ELSE <<>>)
        \o (IF Cardinality(Range(confidences)) # Len(confidences)
            THEN <<"Duplicate confidence points found">> ELSE <<>>)
        \o (IF \E i \in DOMAIN picks : confidences[i] < 1 \/ confidences[i] > 20
            THEN <<"Confidence points must be between 1 and 20">> ELSE <<>>)
        \o (IF empty_teams # {} THEN <<"Empty team names at positions">> ELSE <<>>)

\* min() of an empty list raises ValueError; None has no strip()
ValidateRaises(picks) ==
    IF picks = <<>> THEN "ValueError"
    ELSE IF \E i \in DOMAIN picks : IsNone(picks[i].team) THEN "AttributeError"
    ELSE "none"

\* ExcelAutomation.validate_picks
validate_picks(picks) ==
    [valid |-> ValidateErrors(picks) = <<>>, errors |-> ValidateErrors(picks),
     warnings |-> <<>>]

KC == <<"K", "C">>
TeamNames == {Some(KC), Some(<<>>), Some(<<" ">>), Some(<<" ", "K", "C">>), None}
\* the card of the tests: twenty teams with the confidences 20 down to 1
FullCard == [i \in 1..20 |-> [team |-> Some(KC), confidence |-> 21 - i]]
CardPicks == {[team |-> t, confidence |-> c] : t \in TeamNames, c \in {0, 1, 20, 21}}
CardLists ==
    SeqsOf(CardPicks, 0, 1)
        \cup {[FullCard EXCEPT ![i] = p] : i \in {1, 20}, p \in CardPicks}
        \cup {Append(FullCard, p) : p \in CardPicks}
        \cup {FullCard, SubSeq(FullCard, 1, 19), SubSeq(FullCard, 1, 2)}

ValidatePicks ==
    /\ op = "validate_picks" /\ pc = "call"
    /\ pc' = "done"
    /\ raised' = ValidateRaises(arg)
    /\ ret' = IF ValidateRaises(arg) = "none" THEN validate_picks(arg) ELSE <<>>
    /\ UNCHANGED <<output_dir, database, usage_data, now, team_power_ratings, random_state, generated, points_behind_leader, op, arg, after>>

\* The files of the output directory are named by the parts of their names:
\* Dawgpac25.xlsx is the template, Dawgpac25_<date>.xlsx and
\* Dawgpac25_Week<week>.xlsx the weekly files.  A date that is None or ""
\* is "".
TemplateFile == [prefix |-> "Dawgpac25", date |-> "", week |-> 0]
Filename(week, date) ==
    IF date # "" THEN [prefix |-> "Dawgpac25_", date |-> date, week |-> 0]
    ELSE [prefix |-> "Dawgpac25_Week", date |-> "", week |-> week]

\* A worksheet is the function of its cells that hold a value.
CellValue(worksheet, row, col) ==
    IF <<row, col>> \in DOMAIN worksheet THEN worksheet[<<row, col>>] ELSE None
SetCell(worksheet, row, col, value) ==
    [c \in DOMAIN worksheet \cup {<<row, col>>} |->
        IF c = <<row, col>> THEN value ELSE worksheet[c]]
WithFile(dir, file, worksheet) ==
    [f \in DOMAIN dir \cup {file} |-> IF f = file THEN worksheet ELSE dir[f]]

\* update_picks, the loop over the picks: a pick is a dict with the keys
\* team, confidence and, optionally, week.
PickWritten(pick) == Truthy(pick.team) /\ pick.confidence # 0
PickRow(pick) == 23 - pick.confidence
PickCol(pick, week) == (IF IsNone(pick.week) THEN week ELSE pick.week[1]) + 1
\* worksheet.cell raises ValueError for a row or column below 1
CellRaises(row, col) == row < 1 \/ col < 1

RECURSIVE WritePicks(_, _, _)
WritePicks(worksheet, picks, week) ==
    IF picks = <<>> THEN worksheet
    ELSE WritePicks(IF PickWritten(Head(picks))
                    THEN SetCell(worksheet, PickRow(Head(picks)),
                                 PickCol(Head(picks), week), Head(picks).team)
                    ELSE worksheet,
                    Tail(picks), week)

\* ExcelAutomation.create_weekly_file: the directory after it
create_weekly_file(dir, week, date) ==
    IF TemplateFile \in DOMAIN dir
    THEN WithFile(dir, Filename(week, date), dir[TemplateFile]) ELSE dir

\* ExcelAutomation.update_picks: its result and the directory after it
update_picks(dir, week, picks, date) ==
    LET file == Filename(week, date)
        created == IF file \in DOMAIN dir THEN dir ELSE create_weekly_file(dir, week, date)
    IN  IF file \notin DOMAIN created THEN [ret |-> FALSE, dir |-> dir]
        ELSE IF \E i \in DOMAIN picks :
                    /\ PickWritten(picks[i])
                    /\ CellRaises(PickRow(picks[i]), PickCol(picks[i], week))
        THEN [ret |-> FALSE, dir |-> created]
        ELSE [ret |-> TRUE,
              dir |-> WithFile(created, file, WritePicks(created[file], picks, week))]

\* get_current_picks, the loop over the rows from row to 21
RECURSIVE ReadRows(_, _, _)
ReadRows(worksheet, week, row) ==
    IF row > 21 THEN <<>>
    ELSE LET team == CellValue(worksheet, row, week + 1)
         IN  (IF Truthy(team) /\ Strip(team[1]) # <<>>
              THEN <<[team |-> Strip(team[1]), confidence |-> 22 - row, week |-> week]>>
              ELSE <<>>)
             \o ReadRows(worksheet, week, row + 1)

\* ExcelAutomation.get_current_picks
get_current_picks(dir, week, date) ==
    IF Filename(week, date) \notin DOMAIN dir \/ CellRaises(2, week + 1) THEN <<>>
    ELSE ReadRows(dir[Filename(week, date)], week, 2)

BALT == <<"B", "A", "L", "T">>
NoFiles == [f \in {} |-> <<>>]
\* The template of the tests, without the numbers of row 1 and of column A,
\* which the code reads for no week from 1 on: "SAMPLE" in week 1.
Template == [c \in {<<2, 2>>} |-> Some(<<"S", "A", "M", "P", "L", "E">>)]
\* The output directory without and with the template.
Directories == {NoFiles, [f \in {TemplateFile} |-> Template]}
ExcelWeeks == {3, 4}
ExcelDates == {"", "2025-09-17"}
ExcelPicks ==
    {[team |-> t, confidence |-> c, week |-> w] :
        t \in {Some(KC), Some(BALT), Some(<<>>)}, c \in {0, 1, 20, 25}, w \in {None, Some(4)}}
MaxCard == 2
ExcelCards == SeqsOf(ExcelPicks, 0, MaxCard)

UpdatePicks ==
    /\ op = "update_picks" /\ pc = "call"
    /\ pc' = "done"
    /\ ret' = update_picks(output_dir, arg.week, arg.picks, arg.date).ret
    /\ output_dir' = update_picks(output_dir, arg.week, arg.picks, arg.date).dir
    /\ UNCHANGED <<database, usage_data, now, team_power_ratings, random_state, generated, points_behind_leader, op, arg, after, raised>>

\* get_current_picks after an update; `after` holds its arguments.
GetCurrentPicks ==
    \E week \in ExcelWeeks, date \in ExcelDates :
        /\ op = "update_picks" /\ pc = "done"
        /\ op' = "get_current_picks"
        /\ after' = [week |-> week, date |-> date]
        /\ ret' = get_current_picks(output_dir, week, date)
        /\ UNCHANGED <<output_dir, database, usage_data, now, team_power_ratings, random_state, generated, points_behind_leader, pc, arg, raised>>

----------------------------------------------------------------------------
(* database.py *)

\* The database file: the set of its tables, the rows of schema_version (the
\* versions), of picks and of results in the order of their insertion, and,
\* as history, the migrations run on the file so far.  A column that may be
\* NULL holds <<>> for NULL and <<v>> for the value v.
NoDatabase ==
    [tables |-> {}, schema_version |-> <<>>, picks |-> <<>>, results |-> <<>>,
     migrations_run |-> <<>>]

\* The tables a migration creates, IF NOT EXISTS.
MigrationTables(i) ==
    IF i = 1 THEN {"picks", "results", "strategies", "competitors", "llm_data"}
    ELSE IF i = 3 THEN {"competitor_patterns", "weekly_reports"}
    ELSE {}

\* The migration list is run without looking at the version.
MigrationDueAlways(i, current_version) == i \in 1..3

\* _run_migrations: migration i is run
MigrationDue(i, current_version) == i > current_version

\* _run_migrations, from migration i on
RECURSIVE _run_migrations(_, _, _)
_run_migrations(db, current_version, i) ==
    IF i > 3 THEN db
    ELSE IF MigrationDue(i, current_version)
    THEN _run_migrations(
            [db EXCEPT !.tables = @ \cup MigrationTables(i),
                       !.schema_version = Append(@, i),
                       !.migrations_run = Append(@, i)],
            current_version, i + 1)
    ELSE _run_migrations(db, current_version, i + 1)

\* SELECT MAX(version) FROM schema_version, or 0
CurrentVersion(db) ==
    IF db.schema_version = <<>> THEN 0
    ELSE CHOOSE v \in Range(db.schema_version) : \A w \in Range(db.schema_version) : w <= v

\* version is the primary key of schema_version: a second row of a version
\* raises sqlite3.IntegrityError
InitRaises(db) ==
    LET migrated == _run_migrations(db, CurrentVersion(db), 1).schema_version
    IN  IF Cardinality(Range(migrated)) # Len(migrated) THEN "IntegrityError" ELSE "none"

\* DatabaseManager.init_database: the file after it.  The connection is
\* closed without a commit when an insertion raises; the migrations up to it
\* were run all the same.
init_database(db) ==
    LET created == [db EXCEPT !.tables = @ \cup {"schema_version"}]
        migrated == _run_migrations(created, CurrentVersion(db), 1)
    IN  IF InitRaises(db) = "none" THEN migrated
        ELSE [created EXCEPT !.migrations_run = migrated.migrations_run]

\* The row of picks that save_picks inserts for a pick
PickRowOf(pick) ==
    [week |-> pick.week[1], game |-> pick.game, predicted_winner |-> pick.predicted_winner,
     confidence_points |-> pick.confidence_points,
     actual_winner |-> None, hit |-> None, points_earned |-> None]

RECURSIVE PickRows(_)
PickRows(picks) ==
    IF picks = <<>> THEN <<>> ELSE <<PickRowOf(Head(picks))>> \o PickRows(Tail(picks))

\* DatabaseManager.save_picks: week is NOT NULL, and nothing is committed
\* when an insertion raises
save_picks(db, picks) ==
    IF \E i \in DOMAIN picks : IsNone(picks[i].week) THEN [ret |-> FALSE, db |-> db]
    ELSE [ret |-> TRUE, db |-> [db EXCEPT !.picks = @ \o PickRows(picks)]]

\* The UPDATE of update_pick_results on one row, for all weeks.
UpdatedRowAnyWeek(row, week, game, winner) ==
    IF row.game = game
    THEN [row EXCEPT !.actual_winner = Some(winner),
                     !.hit = Some(row.predicted_winner = winner),
                     !.points_earned = Some(IF row.predicted_winner = winner
                                            THEN row.confidence_points ELSE 0)]
    ELSE row

\* The UPDATE of update_pick_results on one row
UpdatedRow(row, week, game, winner) ==
    IF row.week = week /\ row.game = game
    THEN [row EXCEPT !.actual_winner = Some(winner),
                     !.hit = Some(row.predicted_winner = winner),
                     !.points_earned = Some(IF row.predicted_winner = winner
                                            THEN row.confidence_points ELSE 0)]
    ELSE row

\* update_pick_results, the loop over results.items(); results is the
\* sequence of the items of the dict, in its order
RECURSIVE UpdateResults(_, _, _)
UpdateResults(db, week, results) ==
    IF results = <<>> THEN db
    ELSE LET game == Head(results).game
             winner == Head(results).winner[1]
         IN  UpdateResults(
                [db EXCEPT !.results = Append(@, [week |-> week, game |-> game,
                                                  winner |-> winner]),
                           !.picks = [i \in DOMAIN @ |-> UpdatedRow(@[i], week, game, winner)]],
                week, Tail(results))

\* DatabaseManager.update_pick_results: winner is NOT NULL, and nothing is
\* committed when an insertion raises
update_pick_results(db, week, results) ==
    IF \E i \in DOMAIN results : IsNone(results[i].winner) THEN [ret |-> FALSE, db |-> db]
    ELSE [ret |-> TRUE, db |-> UpdateResults(db, week, results)]

\* The rows get_picks selects: those of the week, all for a week of 0
SelectedPicks(db, week) ==
    {i \in DOMAIN db.picks : week = 0 \/ db.picks[i].week = week}

\* ORDER BY [week DESC,] confidence_points DESC: row i may come before row j
OrderedBefore(db, week, i, j) ==
    IF week = 0 /\ db.picks[i].week # db.picks[j].week
    THEN db.picks[i].week > db.picks[j].week
    ELSE db.picks[i].confidence_points >= db.picks[j].confidence_points

\* DatabaseManager.get_picks: the lists it can return, rows that the ORDER BY
\* does not tell apart coming in any order
get_picks(db, week) ==
    LET selected == SelectedPicks(db, week)
        n == Cardinality(selected)
        orders == {o \in [1..n -> selected] :
                        /\ \A a, b \in 1..n : a # b => o[a] # o[b]
                        /\ \A a, b \in 1..n : a < b => OrderedBefore(db, week, o[a], o[b])}
    IN  {[k \in 1..n |-> db.picks[o[k]]] : o \in orders}

DatabaseWeeks == {3, 4}
Winners == {"KC", "NYG"}
MaxStored == 2
MaxResults == 2
SavedPicks ==
    {[week |-> w, game |-> g, predicted_winner |-> t, confidence_points |-> c] :
        w \in {None} \cup {Some(k) : k \in DatabaseWeeks}, g \in {"KC@NYG"},
        t \in {"KC"}, c \in {20}}
ResultItems ==
    {[game |-> "KC@NYG", winner |-> w] : w \in {None} \cup {Some(t) : t \in Winners}}
        \cup {[game |-> "DAL@CHI", winner |-> Some("CHI")]}
\* the items of a dict have pairwise different keys
ResultDicts ==
    {r \in SeqsOf(ResultItems, 0, 2) : \A i, j \in DOMAIN r : i # j => r[i].game # r[j].game}

\* DatabaseManager(db_path); `after` holds the file as it was before.
DatabaseManager ==
    /\ op' = "DatabaseManager"
    /\ pc' = "done"
    /\ arg' = <<>>
    /\ after' = database
    /\ ret' = <<>>
    /\ raised' = InitRaises(database)
    /\ database' = init_database(database)
    /\ UNCHANGED <<output_dir, usage_data, now, team_power_ratings, random_state, generated, points_behind_leader>>

Constructed == op # "__init__" /\ raised = "none"

SavePicks ==
    \E picks \in SeqsOf(SavedPicks, 0, 2) :
        /\ Constructed
        /\ Len(database.picks) + Len(picks) <= MaxStored
        /\ op' = "save_picks"
        /\ arg' = picks
        /\ after' = database
        /\ ret' = save_picks(database, picks).ret
        /\ database' = save_picks(database, picks).db
        /\ UNCHANGED <<output_dir, usage_data, now, team_power_ratings, random_state, generated, points_behind_leader, pc, raised>>

\* `after` holds the file as it was before the call.
UpdatePickResults ==
    \E week \in DatabaseWeeks, results \in ResultDicts :
        /\ Constructed
        /\ Len(database.results) + Len(results) <= MaxResults
        /\ op' = "update_pick_results"
        /\ arg' = [week |-> week, results |-> results]
        /\ after' = database
        /\ ret' = update_pick_results(database, week, results).ret
        /\ database' = update_pick_results(database, week, results).db
        /\ UNCHANGED <<output_dir, usage_data, now, team_power_ratings, random_state, generated, points_behind_leader, pc, raised>>

GetPicks ==
    \E week \in DatabaseWeeks \cup {0} :
        \E picks \in get_picks(database, week) :
            /\ Constructed
            /\ op' = "get_picks"
            /\ arg' = week
            /\ after' = database
            /\ ret' = picks
            /\ UNCHANGED <<output_dir, database, usage_data, now, team_power_ratings, random_state, generated, points_behind_leader, pc, raised>>

----------------------------------------------------------------------------
(* core.py: APIUsageTracker *)

ApiNames == {"odds_api", "openrouter"}

\* APIUsageTracker.monthly_limits
monthly_limits == [odds_api |-> 500, openrouter |-> 1000]

\* _load_usage_data without a usage file; a current_month of 0 is None
FreshUsage ==
    [api \in ApiNames |-> [current_month |-> 0, requests_used |-> 0]]

\* APIUsageTracker._check_month_reset: usage_data after it
_check_month_reset(data, api_name, current_month) ==
    IF data[api_name].current_month # current_month
    THEN [data EXCEPT ![api_name] = [current_month |-> current_month, requests_used |-> 0]]
    ELSE data

\* APIUsageTracker.can_make_request
can_make_request(data, api_name, current_month) ==
    _check_month_reset(data, api_name, current_month)[api_name].requests_used
        < monthly_limits[api_name]

\* APIUsageTracker.record_request: usage_data after it
record_request(data, api_name, current_month) ==
    [_check_month_reset(data, api_name, current_month)
        EXCEPT ![api_name].requests_used = @ + 1]

\* What happens to a call of fetch_odds_data: there is no API key; the week
\* is in the cache; the week has no games; the batch is fetched (a failed
\* or malformed response ends in _fetch_week_odds_batch and gives {}).
OddsOutcomes == {"no_key", "cached", "no_games", "fetched"}

\* PoolDominationSystem.fetch_odds_data: usage_data after it
fetch_odds_data(data, current_month, outcome) ==
    IF outcome = "no_key" THEN data
    ELSE IF ~can_make_request(data, "odds_api", current_month) \/ outcome # "fetched"
    THEN _check_month_reset(data, "odds_api", current_month)
    ELSE record_request(data, "odds_api", current_month)

\* What happens to a call of call_openrouter_api: there is no API key; the
\* request fails before an answer is decoded (no connection, an error
\* status, a body that is not JSON); the answer is decoded and its content
\* read; the answer is decoded and has no content to read ("choices": [],
\* "content": null), which raises after the request was recorded.
OpenRouterOutcomes == {"no_key", "failed", "answered", "malformed"}

\* PoolDominationSystem.call_openrouter_api: usage_data after it
call_openrouter_api(data, current_month, outcome) ==
    IF outcome = "no_key" THEN data
    ELSE IF ~can_make_request(data, "openrouter", current_month)
    THEN _check_month_reset(data, "openrouter", current_month)
    ELSE IF outcome = "malformed"
    THEN record_request(record_request(data, "openrouter", current_month),
                        "openrouter", current_month)
    ELSE record_request(data, "openrouter", current_month)

MaxHeadroom == 2
MaxMonths == 2
\* _load_usage_data: what earlier runs left in the usage file
LoadedUsage ==
    {[odds_api |-> [current_month |-> m, requests_used |-> a],
      openrouter |-> [current_month |-> m, requests_used |-> b]] :
        m \in {0, 1},
        a \in {0} \cup {monthly_limits.odds_api - k : k \in 0..MaxHeadroom},
        b \in {0} \cup {monthly_limits.openrouter - k : k \in 0..MaxHeadroom}}

\* The calls are followed while the counter is within MaxHeadroom of 0 or
\* of the limit.
NearEnd(api_name) ==
    \/ usage_data[api_name].requests_used < MaxHeadroom
    \/ usage_data[api_name].requests_used >= monthly_limits[api_name] - MaxHeadroom

FetchOddsData ==
    \E outcome \in OddsOutcomes :
        /\ NearEnd("odds_api")
        /\ op' = "fetch_odds_data"
        /\ pc' = "done"
        /\ arg' = outcome
        /\ after' = usage_data
        /\ usage_data' = fetch_odds_data(usage_data, now, outcome)
        /\ UNCHANGED <<output_dir, database, now, team_power_ratings, random_state, generated, points_behind_leader, ret, raised>>

CallOpenRouterApi ==
    \E outcome \in OpenRouterOutcomes :
        /\ NearEnd("openrouter")
        /\ op' = "call_openrouter_api"
        /\ pc' = "done"
        /\ arg' = outcome
        /\ after' = usage_data
        /\ usage_data' = call_openrouter_api(usage_data, now, outcome)
        /\ UNCHANGED <<output_dir, database, now, team_power_ratings, random_state, generated, points_behind_leader, ret, raised>>

\* The month of datetime.now() changes.
MonthPasses ==
    /\ now < MaxMonths
    /\ now' = now + 1
    /\ UNCHANGED <<output_dir, database, usage_data, team_power_ratings, random_state, generated, points_behind_leader, op, pc, arg, after, ret, raised>>

\* The stores of a system that has stored nothing.
NothingStored ==
    /\ output_dir = NoFiles
    /\ database = NoDatabase
    /\ usage_data = FreshUsage
    /\ now = 1

----------------------------------------------------------------------------
(* Specifications *)

\* A pending call of operation o with arguments a, of a system whose rating
\* table is table.
CallingRated(o, a, table) ==
    /\ points_behind_leader = 0      \* PoolPosition(points_behind_leader=0)
    /\ op = o
    /\ pc = "call"
    /\ arg = a
    /\ after = a
    /\ ret = <<>>
    /\ raised = "none"
    /\ random_state = 0
    /\ generated = <<>>
    /\ team_power_ratings = table
    /\ NothingStored

\* A pending call of operation o with arguments a.
Calling(o, a) == CallingRated(o, a, InitialRatings)

\* The system as constructed: PoolDominationSystem.__init__.
InitStrategy ==
    /\ points_behind_leader = 0
    /\ op = "__init__"
    /\ pc = "done"
    /\ arg = <<>>
    /\ after = <<>>
    /\ ret = <<>>
    /\ raised = "none"
    /\ random_state = 0
    /\ generated = <<>>
    /\ team_power_ratings = InitialRatings
    /\ NothingStored

NextStrategy == SetPoolPosition \/ DetermineStrategy
SpecStrategy == InitStrategy /\ [][NextStrategy]_vars

InitAssign == \E picks \in CandidatePools : Calling("_apply_fibonacci_assignment", picks)
NextAssign == ApplyFibonacciAssignment
SpecAssign == InitAssign /\ [][NextAssign]_vars

InitValue == \E picks \in PickLists : Calling("analyze_value_plays", picks)
NextValue == AnalyzeValuePlays \/ OptimizeConfidenceAllocation
SpecValue == InitValue /\ [][NextValue]_vars

InitCombineCore ==
    \E as \in CoreAnalysisLists, m \in CombineMethods :
        Calling("combine_llm_analyses", [analyses |-> as, method |-> m])

InitCombineLLM ==
    \E as \in LLMAnalysisDicts, st \in CombineStrategies :
        Calling("combine_analyses", [analyses |-> as, strategy |-> st])

InitCombine == InitCombineCore \/ InitCombineLLM
NextCombine == CombineLLMAnalyses \/ CombineAnalyses
SpecCombine == InitCombine /\ [][NextCombine]_vars

InitScorer ==
    \/ \E scorer \in Scorers, n \in 0..MaxGames :
            \E games \in [1..n -> GameStrings], draws \in [1..n -> DrawsOf(scorer)] :
                Calling(scorer, [games |-> games, draws |-> draws])
    \/ \E scorer \in Scorers, game \in BoundaryGames :
        \E draw \in DrawsOf(scorer) :
            Calling(scorer, [games |-> <<game>>, draws |-> <<draw>>])
    \/ \E scorer \in Scorers, n \in 1..MaxSchedule :
        \E draw \in DrawsOf(scorer) :
            Calling(scorer, [games |-> LongSchedule(n), draws |-> [i \in 1..n |-> draw]])
    \/ \E scorer \in {"_generate_high_variance_picks", "_generate_maximum_variance_picks"},
          game \in NoiseGames, draw \in FractionalDraws :
            Calling(scorer, [games |-> <<game>>, draws |-> <<draw>>])
    \/ \E scorer \in Scorers, games \in SeqsOf(ExampleGames, 1, 2) :
        \E draw \in DrawsOf(scorer) :
            CallingRated(scorer, [games |-> games, draws |-> [i \in DOMAIN games |-> draw]],
                         ExampleRatings)
NextScorer ==
    \/ GenerateProtectivePicks
    \/ GenerateBalancedPicks
    \/ GenerateHighVariancePicks
    \/ GenerateMaximumVariancePicks
SpecScorer == InitScorer /\ [][NextScorer]_vars

\* The system as constructed, with the pool position set and the generator
\* in the state the process started it in.
InitGenerate ==
    /\ points_behind_leader \in GenerateDeficits
    /\ op = "__init__"
    /\ pc = "done"
    /\ arg = <<>>
    /\ after = <<>>
    /\ ret = <<>>
    /\ raised = "none"
    /\ random_state \in Seeds
    /\ generated = <<>>
    /\ team_power_ratings = InitialRatings
    /\ NothingStored
NextGenerate == SeedRandom \/ GenerateOptimalPicks
SpecGenerate == InitGenerate /\ [][NextGenerate]_vars

InitWeek == \E date \in DateStrings : Calling("_get_week_from_date", date)
NextWeek == GetWeekFromDate
SpecWeek == InitWeek /\ [][NextWeek]_vars

InitValidate == \E picks \in CardLists : Calling("validate_picks", picks)
NextValidate == ValidatePicks
SpecValidate == InitValidate /\ [][NextValidate]_vars

InitExcel ==
    \E week \in ExcelWeeks, picks \in ExcelCards, date \in ExcelDates :
        /\ points_behind_leader = 0
        /\ op = "update_picks"
        /\ pc = "call"
        /\ arg = [week |-> week, picks |-> picks, date |-> date]
        /\ after = [week |-> week, date |-> date]
        /\ ret = <<>>
        /\ raised = "none"
        /\ random_state = 0
        /\ generated = <<>>
        /\ team_power_ratings = InitialRatings
        /\ output_dir \in Directories
        /\ database = NoDatabase
        /\ usage_data = FreshUsage
        /\ now = 1
NextExcel == UpdatePicks \/ GetCurrentPicks
SpecExcel == InitExcel /\ [][NextExcel]_vars

\* No database file yet.
InitDatabase == InitStrategy
NextDatabase == DatabaseManager \/ SavePicks \/ UpdatePickResults \/ GetPicks
SpecDatabase == InitDatabase /\ [][NextDatabase]_vars

\* The tracker as constructed, with the usage file earlier runs left.
InitUsage ==
    /\ points_behind_leader = 0
    /\ op = "__init__"
    /\ pc = "done"
    /\ arg = <<>>
    /\ after = <<>>
    /\ ret = <<>>
    /\ raised = "none"
    /\ random_state = 0
    /\ generated = <<>>
    /\ team_power_ratings = InitialRatings
    /\ output_dir = NoFiles
    /\ database = NoDatabase
    /\ usage_data \in {FreshUsage} \cup LoadedUsage
    /\ now = 1
NextUsage == FetchOddsData \/ CallOpenRouterApi \/ MonthPasses
SpecUsage == InitUsage /\ [][NextUsage]_vars


----------------------------------------------------------------------------
(* Claims: strategy selector *)

StrategyReturned == op = "_determine_strategy" /\ pc = "done"

C4_TestThresholds ==
    StrategyReturned =>
        /\ (arg = Points(75) => ret = "high_variance")
        /\ (ret = "maximum_variance" => arg >= Points(150))
        /\ (arg = Points(-40) => ret = "protective")
        /\ (arg = Points(-10) => ret = "balanced")

----------------------------------------------------------------------------
(* Claims: confidence assignment *)

AssignReturned == op = "_apply_fibonacci_assignment" /\ pc = "done"

PointsOf(picks) == {picks[i].confidence_points : i \in DOMAIN picks}

----------------------------------------------------------------------------
(* Claims: value/risk analysis and reallocation *)

AnalysisEnded == op = "analyze_value_plays" /\ pc = "done"
ReallocationReturned == op = "optimize_confidence_allocation" /\ pc = "done"

\* C2: reallocating n plays (K = min(20, n)) returns confidences that all
\* lie in 1..K and are pairwise distinct.  Stated here for the plays analysed
\* from entries whose own confidence is within 1..20.
C2_ReallocationBijection ==
    (ReallocationReturned /\ \A i \in DOMAIN arg : arg[i].confidence \in 1..20) =>
        /\ \A i \in DOMAIN ret : ret[i].confidence \in 1..Min(20, Len(arg))
        /\ \A i, j \in DOMAIN ret : i # j => ret[i].confidence # ret[j].confidence

\* C10: an entry whose confidence is outside 1..20 makes the analysis end
\* with an invalid-confidence-range error, and no ValuePlay is returned.
C10_OutOfRangeRejected ==
    (AnalysisEnded /\ \E i \in DOMAIN arg : arg[i].confidence \notin 1..20) =>
        /\ raised = "InvalidConfidenceRange"
        /\ ret = <<>>

----------------------------------------------------------------------------
(* Claims: combiners *)

CoreCombined == op = "combine_llm_analyses" /\ pc = "done"
LLMCombined == op = "combine_analyses" /\ pc = "done" /\ raised = "none"
SingleSource == Len(arg.analyses) = 1

\* How often one analysis mentions a game, over all its lists.
TimesMentioned(analysis, game) ==
    Cardinality({j \in DOMAIN Mentions(analysis) : Mentions(analysis)[j] = game})

\* The games a result of combine_analyses lists.
GamesListed(result, strategy) ==
    CASE strategy = "consensus" -> Range(result.consensus_games)
      [] strategy = "weighted" ->
            {result.weighted_games[i].game : i \in DOMAIN result.weighted_games}
      [] strategy = "best" -> Range(result.best_games)

C6_ConsensusIffSeveralSources ==
    (LLMCombined /\ arg.strategy = "consensus") =>
        \A g \in GameIds :
            g \in Range(ret.consensus_games) <=>
                Cardinality({i \in DOMAIN arg.analyses :
                                TimesMentioned(arg.analyses[i].analysis, g) > 0}) > 1

\* The normalised scores a weighted result must hold when source i adds
\* its weight Times(i, g) times to game g.
ScoresAre(result, analyses, Times(_, _)) ==
    LET Total(g) == SumSeq([i \in DOMAIN analyses |->
                              llm_weights(analyses[i].name) * Times(analyses[i].analysis, g)])
        mentioned == {g \in GameIds : Total(g) > 0}
    IN  /\ {result.confidence_scores[k].game : k \in DOMAIN result.confidence_scores}
                = mentioned
        /\ \A k \in DOMAIN result.confidence_scores :
              result.confidence_scores[k].score =
                  Normalized(Total(result.confidence_scores[k].game),
                             MaxOf({Total(g) : g \in mentioned}))

OncePerSource(analysis, game) == IF TimesMentioned(analysis, game) > 0 THEN 1 ELSE 0

C8_InputsUnchanged ==
    (pc = "done" /\ op \in {"combine_llm_analyses", "combine_analyses"}) => after = arg

----------------------------------------------------------------------------
(* Claims: candidate scorers *)

ScorerEnded == op \in Scorers /\ pc = "done"

\* Not exactly one "@" with a team on each side.
Malformed(game) == ~(Len(game) = 2 /\ game[1] # "" /\ game[2] # "")

\* C9: a malformed game string makes every scorer end at once with a
\* malformed-game error; it is neither passed over nor made into a pick.
C9_MalformedRejected ==
    (ScorerEnded /\ \E i \in DOMAIN arg.games : Malformed(arg.games[i])) =>
        /\ raised = "MalformedGameIdentifier"
        /\ ret = <<>>

----------------------------------------------------------------------------
(* Claims: pick generation *)

GenerationEnded == op = "generate_optimal_picks" /\ pc = "done"

\* The schedule lists no game for the week, or the two byes of a bye week.
WeekWithoutGames(week) == schedule(week) \in {<<>>, <<<<"BYE">>, <<"BYE">>>>}

\* The scorer the pool position selects makes no candidate of any game of
\* the week.
NoCandidates(week) ==
    LET scorer == ScorerOf(_determine_strategy(points_behind_leader))
    IN  \A i \in DOMAIN schedule(week) :
            \/ ~HasAt(schedule(week)[i])
            \/ /\ Len(schedule(week)[i]) = 2
               /\ scorer = "_generate_protective_picks"
               /\ ProtectiveCandidate(schedule(week)[i]) = <<>>

\* C11 as stated: a week with no games, a bye week, or a week whose games
\* the scorer all skips, gives an empty pick list and no exception.
C11_EmptyPoolGivesEmptyList ==
    (GenerationEnded /\ NoCandidates(arg)) => (raised = "none" /\ ret = <<>>)

\* C11, amended: a week with no games listed or a bye week makes
\* generate_optimal_picks raise ValueError; a week that has games of which
\* the scorer makes no candidate gives an empty pick list and no exception.
C11_EmptyPoolRaisesOrEmpty ==
    /\ (GenerationEnded /\ WeekWithoutGames(arg)) => raised = "ValueError"
    /\ (GenerationEnded /\ ~WeekWithoutGames(arg) /\ NoCandidates(arg)) =>
            (raised = "none" /\ ret = <<>>)

C11_Witness ==
    /\ GenerationEnded /\ ~WeekWithoutGames(arg) /\ NoCandidates(arg)
    /\ Len(generated) = 2 /\ WeekWithoutGames(generated[1].week)
    /\ generated[1].raised = "ValueError"

AllWellFormed == \A i \in DOMAIN arg.games : ~Malformed(arg.games[i])

\* The rating difference of a game, home (with its 3 points) minus away,
\* a team missing from the table counting 50.
TableRating(team) ==
    IF team \in DOMAIN team_power_ratings THEN team_power_ratings[team] ELSE 50
RatingDifference(game) == (TableRating(game[2]) + 3) - TableRating(game[1])
HigherRated(game) == IF RatingDifference(game) > 0 THEN game[2] ELSE game[1]

\* What a scorer tells of its picks: game, winner and raw confidence.
Told(picks) ==
    [i \in DOMAIN picks |->
        [game |-> picks[i].game, predicted_winner |-> picks[i].predicted_winner,
         conf |-> picks[i].conf]]

\* C13: the protective scorer skips a well-formed game exactly when the
\* rating difference is at most 5 either way, and otherwise picks the higher
\* rated side with confidence min(85, 50 + 2 * |difference|); a team missing
\* from the table is rated 50 and is no error.
C13_ProtectiveRule ==
    (op = "_generate_protective_picks" /\ pc = "done" /\ AllWellFormed) =>
        LET kept == SelectSeq(arg.games, LAMBDA g : Abs(RatingDifference(g)) > 5)
        IN  /\ raised = "none"
            /\ Told(ret) =
                 Take([i \in DOMAIN kept |->
                        [game |-> kept[i], predicted_winner |-> HigherRated(kept[i]),
                         conf |-> Min(850, 500 + 20 * Abs(RatingDifference(kept[i])))]],
                      20)

C13_Witness ==
    /\ op = "_generate_protective_picks" /\ pc = "done" /\ AllWellFormed
    /\ Len(ret) = 1 /\ Len(arg.games) = 2
    /\ \E i \in DOMAIN arg.games : Abs(RatingDifference(arg.games[i])) <= 5
    /\ \E t \in {arg.games[i][j] : i \in DOMAIN arg.games, j \in 1..2} :
            t \notin DOMAIN team_power_ratings

\* The picks the balanced rule gives for the games of the call.
BalancedRule ==
    Told(ret) =
        Take([i \in DOMAIN arg.games |->
                [game |-> arg.games[i], predicted_winner |-> HigherRated(arg.games[i]),
                 conf |-> 500 + Min(350, 15 * Abs(RatingDifference(arg.games[i])))]],
             20)

\* The ratings of the example: KC 95, DAL 89, CHI 73 and no rating of NYG.
ExampleTable ==
    /\ {"KC", "DAL", "CHI"} \subseteq DOMAIN team_power_ratings
    /\ "NYG" \notin DOMAIN team_power_ratings
    /\ team_power_ratings["KC"] = 95
    /\ team_power_ratings["DAL"] = 89
    /\ team_power_ratings["CHI"] = 73

\* C14: the balanced scorer skips no well-formed game, picks the side rated
\* higher after the home bonus with confidence 50 + min(35, 1.5 * |difference|);
\* with KC 95, DAL 89, CHI 73 and NYG unrated, KC@NYG gives KC at 85 and
\* DAL@CHI gives DAL at 69.5.
C14_BalancedRule ==
    (op = "_generate_balanced_picks" /\ pc = "done" /\ AllWellFormed) =>
        /\ raised = "none"
        /\ BalancedRule
        /\ ExampleTable =>
            \A i \in DOMAIN ret :
                /\ ret[i].game = <<"KC", "NYG">> =>
                        (ret[i].predicted_winner = "KC" /\ ret[i].conf = 850)
                /\ ret[i].game = <<"DAL", "CHI">> =>
                        (ret[i].predicted_winner = "DAL" /\ ret[i].conf = 695)

C14_Witness ==
    /\ op = "_generate_balanced_picks" /\ pc = "done" /\ ExampleTable
    /\ Told(ret) = <<[game |-> <<"KC", "NYG">>, predicted_winner |-> "KC", conf |-> 850],
                     [game |-> <<"DAL", "CHI">>, predicted_winner |-> "DAL", conf |-> 695]>>

\* The picks of ret made of game g are no more than the games g of the call.
AtMostOnePerGame ==
    \A g \in Range(arg.games) :
        Cardinality({i \in DOMAIN ret : ret[i].game = g})
            <= Cardinality({i \in DOMAIN arg.games : arg.games[i] = g})

\* C15: on well-formed games, whatever the draws, each of the four scorers
\* returns without raising, with at most one candidate per game and at most
\* 20 in all, every raw confidence within 0..100.
C15_ScorersSafe ==
    (ScorerEnded /\ AllWellFormed) =>
        /\ raised = "none"
        /\ Len(ret) <= 20
        /\ Len(ret) <= Len(arg.games)
        /\ AtMostOnePerGame
        /\ \A i \in DOMAIN ret : ret[i].conf >= 0 /\ ret[i].conf <= 1000

C15_Witness ==
    /\ ScorerEnded /\ AllWellFormed
    /\ op = "_generate_high_variance_picks"
    /\ Len(arg.games) > 20 /\ Len(ret) = 20
    /\ \E i \in DOMAIN ret : ret[i].conf > 700

----------------------------------------------------------------------------
(* Claims: order of the assignment *)

\* C16: the list _apply_fibonacci_assignment returns has at most 20 picks,
\* is in descending order of raw confidence (a pick without one counting
\* 0), and its confidence points are within 1..20 and strictly decreasing
\* along the list, hence pairwise distinct.
C16_AssignmentOrdered ==
    AssignReturned =>
        /\ Len(ret) <= 20
        /\ \A i, j \in DOMAIN ret :
                i < j => /\ ConfKey(ret[i].conf) >= ConfKey(ret[j].conf)
                         /\ ret[i].confidence_points > ret[j].confidence_points
        /\ \A i \in DOMAIN ret : ret[i].confidence_points \in 1..20

C16_Witness ==
    /\ AssignReturned
    /\ Len(arg) > 20 /\ Len(ret) = 20
    /\ \E i, j \in DOMAIN arg : i < j /\ ConfKey(arg[i].conf) < ConfKey(arg[j].conf)

----------------------------------------------------------------------------
(* Claims: scores of the value/risk analysis *)

\* The bonuses of the value score, in hundredths.
ContrarianBonus(entry) ==
    IF "contrarian" \in {Lower(w) : w \in entry.contrarian_edge.words} THEN 20
    ELSE IF {"public", "split"} \subseteq {Lower(w) : w \in entry.contrarian_edge.words}
    THEN 10
    ELSE 0
ValueBonus(entry) ==
    IF "exploit" \in {Lower(w) : w \in entry.value_play.words} THEN 15
    ELSE IF "advantage" \in {Lower(w) : w \in entry.value_play.words} THEN 10
    ELSE 0
Clamp01(x) == IF x < 0 THEN 0 ELSE IF x > 100 THEN 100 ELSE x

\* C17: for an entry with confidence c in 1..20 the value score is
\* c/20 + contrarian bonus + value bonus clamped to [0, 1], the contrarian
\* bonus 0.2 for 'contrarian', else 0.1 for a public split, else 0, the value
\* bonus 0.15 for 'exploit', else 0.10 for 'advantage', else 0; c = 18 with
\* 'contrarian' and 'exploit' gives exactly 1.0.
C17_ValueScoreFormula ==
    (AnalysisEnded /\ raised = "none") =>
        \A i \in DOMAIN ret :
            arg[i].confidence \in 1..20 =>
                /\ ret[i].value_score =
                        Clamp01(5 * arg[i].confidence + ContrarianBonus(arg[i])
                                    + ValueBonus(arg[i]))
                /\ (arg[i].confidence = 18 /\ ContrarianBonus(arg[i]) = 20
                        /\ ValueBonus(arg[i]) = 15) => ret[i].value_score = 100

C17_Witness ==
    /\ AnalysisEnded /\ raised = "none" /\ Len(ret) = 1
    /\ arg[1].confidence = 18
    /\ ContrarianBonus(arg[1]) = 20 /\ ValueBonus(arg[1]) = 15
    /\ ret[1].value_score = 100

ScoreFields ==
    {"value_score", "risk_score", "upside_potential", "downside_risk",
     "contrarian_edge", "public_sentiment"}

\* C18: every ValuePlay analyze_value_plays returns has its value score,
\* risk score, upside potential, downside risk, contrarian edge and public
\* sentiment within [0, 1].
C18_ScoresWithinUnit ==
    (AnalysisEnded /\ raised = "none") =>
        \A i \in DOMAIN ret : \A f \in ScoreFields : ret[i][f] >= 0 /\ ret[i][f] <= 100

\* An entry with every null text taken as the empty text.
NullAsEmpty(entry) ==
    [f \in DOMAIN entry |->
        IF f \in TextFields /\ entry[f].none THEN Text({}) ELSE entry[f]]

\* C19: the analysis never raises on a text that is missing, empty or
\* null: it returns the ValuePlay in which every rule on such a text took
\* its else branch.  Stated for entries whose confidence is within 1..20.
C19_NoErrorOnMissingText ==
    (AnalysisEnded /\ \A i \in DOMAIN arg : arg[i].confidence \in 1..20) =>
        /\ raised = "none"
        /\ ret = [i \in DOMAIN arg |-> ValuePlayOf(NullAsEmpty(arg[i]))]

----------------------------------------------------------------------------
(* Claims: averaging *)

NumericFields == {"spread", "public_percentage", "confidence_score"}

\* The entries of game g in the analyses of the call, in order.
EntriesOf(g) ==
    SelectSeq(Flatten([i \in DOMAIN arg.analyses |-> arg.analyses[i].analysis.games]),
              LAMBDA e : e.game = g)
FieldSum(g, f) == SumSeq([i \in DOMAIN EntriesOf(g) |-> EntriesOf(g)[i][f]])

\* A call with the average method that combined two or more analyses.
Averaged == CoreCombined /\ arg.method = "average" /\ Len(arg.analyses) >= 2

\* C20 as stated: under 'average' every numeric field of a game rated by
\* several entries is exactly the arithmetic mean of their values; 20 and 10
\* give 15.
C20_AverageIsMean ==
    Averaged =>
        \A k \in DOMAIN ret.games : \A f \in NumericFields :
            LET g == ret.games[k].game
            IN  Len(EntriesOf(g)) >= 2 =>
                    ret.games[k][f] * Len(EntriesOf(g)) = FieldSum(g, f)

\* C20 as amended: under 'average' every numeric field of a game rated by
\* several entries is the arithmetic mean of their values rounded to one
\* decimal place, weighted by nothing; it is the mean itself when that has
\* one decimal, so 20 and 10 give exactly 15.
C20_AverageIsRoundedMean ==
    Averaged =>
        \A k \in DOMAIN ret.games : \A f \in NumericFields :
            LET g == ret.games[k].game
                n == Len(EntriesOf(g))
            IN  n >= 2 =>
                    /\ 2 * Abs(ret.games[k][f] * n - FieldSum(g, f)) <= n
                    /\ (n = 2 /\ {EntriesOf(g)[1][f], EntriesOf(g)[2][f]} = {200, 100})
                            => ret.games[k][f] = 150

C20_Witness ==
    /\ Averaged /\ Len(arg.analyses) = 2
    /\ \E k \in DOMAIN ret.games :
            /\ ret.games[k].confidence_score = 150
            /\ Len(EntriesOf(ret.games[k].game)) = 2
            /\ {EntriesOf(ret.games[k].game)[i].confidence_score : i \in 1..2} = {200, 100}

----------------------------------------------------------------------------
(* Claims: frame of the reallocation *)

\* A play without regard to its confidence.
SaveConfidence(play) == [play EXCEPT !.confidence = 0]
TimesIn(plays, play) ==
    Cardinality({i \in DOMAIN plays : SaveConfidence(plays[i]) = SaveConfidence(play)})

\* C25: optimize_confidence_allocation leaves the list it is given and every
\* play of it unchanged, and returns one play for each input play, equal to
\* it in every field but confidence.
C25_ReallocationCopies ==
    ReallocationReturned =>
        /\ after = arg
        /\ Len(ret) = Len(arg)
        /\ \A i \in DOMAIN arg : TimesIn(ret, arg[i]) = TimesIn(arg, arg[i])

C25_Witness ==
    /\ ReallocationReturned /\ after = arg /\ Len(arg) = 2
    /\ \E i \in DOMAIN ret : \A j \in DOMAIN arg : ret[i] # arg[j]
    /\ ret[1].game # arg[1].game

----------------------------------------------------------------------------
(* Claims: the twenty picks of a long week *)

\* Every candidate the selected scorer makes of the games of the week, with
\* the draws of the run that has just ended.
WeekCandidates ==
    LET scorer == ScorerOf(_determine_strategy(points_behind_leader))
        games  == schedule(arg)
        draws  == StreamDraws(scorer, games, generated[Len(generated)].seed)
    IN  Flatten([i \in DOMAIN games |->
                    IF HasAt(games[i]) THEN Candidate(scorer, games[i], draws[i])
                    ELSE <<>>])

\* The first twenty of the candidates in descending order of raw confidence,
\* equal confidences in schedule order.
TopTwenty(candidates) ==
    LET order == StableSortDesc([i \in DOMAIN candidates |-> ConfKey(candidates[i].conf)])
    IN  Take([r \in DOMAIN candidates |-> candidates[order[r]]], 20)

\* C26: when a week yields more than 20 candidates, generate_optimal_picks
\* returns the 20 of highest raw confidence among all of them, ties in
\* schedule order.
C26_TopTwentyOfAll ==
    (GenerationEnded /\ raised = "none" /\ Len(WeekCandidates) > 20) =>
        Told(ret) = Told(TopTwenty(WeekCandidates))

----------------------------------------------------------------------------
(* Claims: normalisation of the weighted scores *)

Weighted == LLMCombined /\ arg.strategy = "weighted"

\* The place of the first mention of game g in the order the analyses are
\* read.
FirstSeen(g) ==
    LET all == AllMentions(arg.analyses)
    IN  CHOOSE k \in DOMAIN all :
            all[k].game = g /\ \A j \in 1..(k - 1) : all[j].game # g

\* C27: in weighted mode, when a game is mentioned, every normalized score
\* is in (0, 1] and the highest is exactly 1.0; weighted_games is in
\* non-increasing order of score, games of equal score in the order in which
\* they were first seen.
C27_WeightedNormalized ==
    (Weighted /\ AllMentions(arg.analyses) # <<>>) =>
        LET wg == ret.weighted_games
        IN  /\ wg # <<>>
            /\ \A i \in DOMAIN wg : wg[i].score > 0 /\ wg[i].score <= 1000
            /\ \E i \in DOMAIN wg : wg[i].score = 1000
            /\ \A i, j \in DOMAIN wg :
                  i < j => /\ wg[i].score >= wg[j].score
                           /\ wg[i].score = wg[j].score =>
                                  FirstSeen(wg[i].game) < FirstSeen(wg[j].game)

C27_Witness ==
    /\ Weighted /\ Len(arg.analyses) = 2
    /\ Len(ret.weighted_games) = 2
    /\ ret.weighted_games[1] = [game |-> "DAL@CHI", score |-> 1000]
    /\ ret.weighted_games[2] = [game |-> "KC@NYG", score |-> 1000]

----------------------------------------------------------------------------
(* Claims: the noise of the variance scorers *)

VarianceScored ==
    /\ op \in {"_generate_high_variance_picks", "_generate_maximum_variance_picks"}
    /\ pc = "done" /\ raised = "none" /\ AllWellFormed

LowerRated(game) == IF RatingDifference(game) > 0 THEN game[1] ELSE game[2]

\* What the draws other than the noise decide of candidate i: the winner by
\* the flip and, in maximum variance, the confidence.
DecidedWithoutNoise(i) ==
    /\ ret[i].game = arg.games[i]
    /\ ret[i].predicted_winner =
            IF arg.draws[i].underdog THEN LowerRated(arg.games[i])
            ELSE HigherRated(arg.games[i])
    /\ ret[i].spread = RatingDifference(arg.games[i])
    /\ ret[i].conf =
            IF op = "_generate_high_variance_picks"
            THEN 500 + Min(400, 12 * Abs(RatingDifference(arg.games[i])))
            ELSE arg.draws[i].confidence

----------------------------------------------------------------------------
(* Claims: the week of a date *)

WeekReturned == op = "_get_week_from_date" /\ pc = "done"

\* The week's days, taken in the year of the date, contain the date, or
\* the week's first day is the day after the date.
InSeasonWeek(week, date) ==
    LET first == Datetime(date[1], schedule_dates[week][1][1], schedule_dates[week][1][2])
        last  == Datetime(date[1], schedule_dates[week][2][1], schedule_dates[week][2][2])
        day   == Datetime(date[1], date[2], date[3])
    IN  first - 1 <= day /\ day <= last

\* C23: a date of the 2025 season gives the week whose days contain it or
\* whose first day is the day after it (2025-09-04 gives 1, 2025-09-11
\* gives 2, 2025-09-17 gives 3, 2025-09-25 gives 4), and week 3 when no week
\* matches or the date does not parse.
C23_WeekOfDate ==
    WeekReturned =>
        /\ (arg = <<2025, 9, 4>> => ret = 1)
        /\ (arg = <<2025, 9, 11>> => ret = 2)
        /\ (arg = <<2025, 9, 17>> => ret = 3)
        /\ (arg = <<2025, 9, 25>> => ret = 4)
        /\ (~StrptimeRaises(arg) /\ arg[1] = 2025 =>
                \A week \in DOMAIN schedule_dates : InSeasonWeek(week, arg) => ret = week)
        /\ (StrptimeRaises(arg) => ret = 3)

----------------------------------------------------------------------------
(* Claims: the validation of a card *)

Validated == op = "validate_picks" /\ pc = "done"

\* C22: validate_picks never raises; it reports valid exactly for a list of
\* 20 picks with pairwise different confidences, all within 1..20, and
\* non-empty team names, and for every other list, the empty list and a
\* team of None included, it reports invalid with at least one error.
C22_ValidateTotal ==
    Validated =>
        /\ raised = "none"
        /\ IF raised # "none" THEN FALSE
           ELSE /\ ret.valid <=>
                    /\ Len(arg) = 20
                    /\ \A i, j \in DOMAIN arg : i # j => arg[i].confidence # arg[j].confidence
                    /\ \A i \in DOMAIN arg : arg[i].confidence \in 1..20
                    /\ \A i \in DOMAIN arg : ~IsNone(arg[i].team) /\ Strip(arg[i].team[1]) # <<>>
                /\ ~ret.valid => ret.errors # <<>>

----------------------------------------------------------------------------
(* Claims: the round trip through the workbook *)

\* The picks were written to an existing weekly file and read back with the
\* same week and date.
ReadBack ==
    /\ op = "get_current_picks" /\ pc = "done"
    /\ after.week = arg.week /\ after.date = arg.date
    /\ Filename(arg.week, arg.date) \in DOMAIN output_dir

\* Picks with non-empty teams, no week of their own and pairwise different
\* confidences within 1..20.
RoundTripPicks(picks) ==
    /\ \A i \in DOMAIN picks :
            /\ Truthy(picks[i].team)
            /\ IsNone(picks[i].week)
            /\ picks[i].confidence \in 1..20
    /\ \A i, j \in DOMAIN picks : i # j => picks[i].confidence # picks[j].confidence

\* C21: update_picks(week, picks, date) followed by
\* get_current_picks(week, date) returns exactly the (team, confidence)
\* pairs that were written.
C21_RoundTrip ==
    ReadBack /\ RoundTripPicks(arg.picks) =>
        {<<ret[i].team, ret[i].confidence>> : i \in DOMAIN ret}
            = {<<arg.picks[i].team[1], arg.picks[i].confidence>> : i \in DOMAIN arg.picks}

----------------------------------------------------------------------------
(* Claims: the results of a week *)

ResultsUpdated == op = "update_pick_results" /\ ret = TRUE

ReportedGames == {arg.results[k].game : k \in DOMAIN arg.results}
ReportedWinner(game) ==
    arg.results[CHOOSE k \in DOMAIN arg.results : arg.results[k].game = game].winner[1]

\* C24: after update_pick_results(week, results) succeeds, every stored
\* pick of that week whose game is in results has the reported winner as
\* actual_winner, hit = (predicted_winner = winner) and points_earned =
\* confidence_points if hit, else 0; every other pick is unchanged.
C24_ResultsRecorded ==
    ResultsUpdated =>
        /\ DOMAIN database.picks = DOMAIN after.picks
        /\ \A i \in DOMAIN after.picks :
            LET old == after.picks[i]
                new == database.picks[i]
            IN  IF old.week = arg.week /\ old.game \in ReportedGames
                THEN LET winner == ReportedWinner(old.game)
                         hit == old.predicted_winner = winner
                     IN  /\ new.actual_winner = <<winner>>
                         /\ new.hit = <<hit>>
                         /\ new.points_earned
                                = <<IF hit THEN old.confidence_points ELSE 0>>
                         /\ new.week = old.week /\ new.game = old.game
                         /\ new.predicted_winner = old.predicted_winner
                         /\ new.confidence_points = old.confidence_points
                ELSE new = old

\* A hit of week 3 was recorded while the pick of the same game in week 4
\* stayed without a result.
C24_Witness ==
    /\ ResultsUpdated /\ arg.week = 3
    /\ \E i, j \in DOMAIN database.picks :
        /\ database.picks[i].week = 3 /\ database.picks[i].hit = <<TRUE>>
        /\ database.picks[i].points_earned = <<20>>
        /\ database.picks[j].week = 4 /\ database.picks[j].game = database.picks[i].game
        /\ database.picks[j].actual_winner = <<>>

----------------------------------------------------------------------------
(* Claims: the quota of the APIs *)

\* C28: whatever calls of fetch_odds_data and call_openrouter_api are made,
\* with whatever responses and month changes, requests_used never exceeds
\* 500 for odds_api and never exceeds 1000 for openrouter.
C28_QuotaSafe ==
    /\ usage_data.odds_api.requests_used <= 500
    /\ usage_data.openrouter.requests_used <= 1000

----------------------------------------------------------------------------
(* Claims: the migrations *)

\* how often a row occurs in a list of rows
TimesInRows(row, rows) == Cardinality({k \in DOMAIN rows : rows[k] = row})
\* how often the row at i occurs among the stored picks get_picks selects
TimesInPicks(i, week) ==
    Cardinality({k \in SelectedPicks(database, week) : database.picks[k] = database.picks[i]})

\* C29: over the life of a database file the migrations are run once each,
\* in the order 1, 2, 3: after any number of constructions schema_version
\* has one row for each of 1, 2 and 3, a construction on a migrated file
\* runs no migration and leaves the saved picks, and get_picks returns them.
C29_MigrationsOnce ==
    /\ raised = "none"
    /\ database.migrations_run \in {<<>>, <<1, 2, 3>>}
    /\ op # "__init__" =>
        /\ database.migrations_run = <<1, 2, 3>>
        /\ Len(database.schema_version) = 3
        /\ Range(database.schema_version) = {1, 2, 3}
    /\ op = "DatabaseManager" => database.picks = after.picks
    /\ op = "get_picks" =>
        /\ Len(ret) = Cardinality(SelectedPicks(database, arg))
        /\ \A i \in SelectedPicks(database, arg) :
                TimesInRows(database.picks[i], ret) = TimesInPicks(i, arg)

\* A construction on a file that was migrated and holds saved picks.
C29_Witness ==
    /\ op = "DatabaseManager"
    /\ after.schema_version = <<1, 2, 3>>
    /\ after.picks # <<>>

====
